---- MODULE Spec2Model ----
(***************************************************************************)
(* A model of the validator-epoch manager (near/src/validator_manager.rs)  *)
(* and of the encoded-chunk cache (chain/chunks/src/chunk_cache.rs).       *)
(*                                                                         *)
(* Conventions.  AccountIds are naturals, ordered as the BTreeMap orders   *)
(* the account strings.  A ValidatorStake is [account_id, amount] (the     *)
(* public key is carried along unread by every function modelled here).    *)
(* ValidatorIds are 0-based as in the source; TLA+ sequences are 1-based,  *)
(* so v[i] of the source is v[i + 1] here.  A Rust map is a TLA+ function  *)
(* whose DOMAIN is the key set.  Balances are u128 and stay far below      *)
(* 2^128 in every input drawn here, so sums of stakes do not wrap; u64     *)
(* subtractions that can underflow are modelled with both outcomes a build *)
(* can produce (panic with overflow checks, wrap-around without).          *)
(***************************************************************************)
EXTENDS Integers, Sequences, FiniteSets, TLC

VARIABLES
    \* call frame of find_threshold (SpecThreshold)
    th_stakes, th_num_seats, th_pc, th_left, th_right, th_result,
    \* call frame of proposals_to_assignments (SpecAssign)
    pa_config, pa_current, pa_proposals, pa_kickout, pa_pc, pa_result,
    \* the two-valued (new_stake, returned_stake) map of that call, as it
    \* stands when line 222 flattens it
    pa_stake_change,
    \* EncodedChunksCache (SpecCache)
    largest_seen_height, encoded_chunks, height_map,
    \* history: per cached chunk, under each part_ord and to_shard_id the part
    \* and receipt of the first accepted partial that carried one, since the
    \* entry was created
    first_accepted,
    \* the last call on the cache: its name, what it returned, and whether a
    \* merged partial carried, under a key already stored, another payload
    cache_last,
    \* the index of chunk headers by prev_block_hash (SpecHeaders), a record of
    \* the LRU block_hash_to_chunk_headers (its buckets from the least recently
    \* set to the most recently set), the history (the hashes whose bucket the
    \* LRU displaced since the bucket was last consumed, and for every other
    \* prev_block_hash the pairs insert_chunk_header accepted since then) and
    \* the last call on the index (its name, its arguments and what it did)
    chunk_headers,
    \* ValidatorManager (Spec): the persistent store (COL_PROPOSALS,
    \* COL_VALIDATORS, COL_LAST_EPOCH_PROPOSALS and the LAST_EPOCH key), the
    \* two fields kept in memory, the StoreUpdate add_proposals returned and
    \* the caller has neither committed nor dropped yet, and the call in
    \* progress: its name, arguments, result and the state it started from;
    \* dropped counts the batches the caller dropped
    store, last_epoch, epoch_validators, pending, em_last, dropped

th_vars == <<th_stakes, th_num_seats, th_pc, th_left, th_right, th_result>>
pa_vars == <<pa_config, pa_current, pa_proposals, pa_kickout, pa_pc, pa_result,
             pa_stake_change>>
hdr_vars == <<chunk_headers>>
block_hash_to_chunk_headers == chunk_headers.block_hash_to_chunk_headers
accepted_since == chunk_headers.accepted_since
displaced == chunk_headers.displaced
headers_last == chunk_headers.last
cache_vars == <<largest_seen_height, encoded_chunks, height_map, first_accepted,
                cache_last, hdr_vars>>
em_vars == <<store, last_epoch, epoch_validators, pending, em_last, dropped>>
vars == <<th_vars, pa_vars, cache_vars, em_vars>>

-----------------------------------------------------------------------------
(* Bounds of the model. *)

\* longest list of stakes handed to find_threshold
MaxStakes == 3
\* largest single stake handed to find_threshold
MaxStake == 4
\* largest num_seats handed to find_threshold
MaxSeats == 4
\* largest amount of a proposal or of a prior validator
MaxAmount == 3
\* longest proposal list handed to proposals_to_assignments
MaxProposals == 2
\* most parts one PartialEncodedChunk carries
MaxParts == 2
\* most receipt proofs one PartialEncodedChunk carries
MaxReceipts == 1
\* most blocks ever stored by add_proposals
MaxBlocks == 3
\* most block indices a block skips after its parent's
MaxSkip == 1
\* most batches of add_proposals the caller drops instead of committing
MaxDrops == 1
\* most blocks of the chain without forks
MaxChain == 4
\* most chunk headers in the bucket of the followed block hash
MaxHeaders == 2

-----------------------------------------------------------------------------
(* Generic helpers for sequences and maps. *)

EmptyMap == << >>

MapPut(m, k, v) == (k :> v) @@ m

\* body(v), with v evaluated once
Let(v, body(_)) == CHOOSE r \in {body(x) : x \in {v}} : TRUE

\* the function f, tabulated
Table(f) == f @@ << >>

MapGetOr(m, k, default) == IF k \in DOMAIN m THEN m[k] ELSE default

Min(S) == CHOOSE x \in S : \A y \in S : x <= y
Max(S) == CHOOSE x \in S : \A y \in S : x >= y

RECURSIVE SortedSeqDescending(_)
\* mutant: the keys come largest first
SortedSeqDescending(S) ==
    IF S = {} THEN << >>
    ELSE <<CHOOSE x \in S : \A y \in S : y <= x>>
         \o SortedSeqDescending(S \ {CHOOSE x \in S : \A y \in S : y <= x})

RECURSIVE SortedSeq(_)
\* the elements of a finite set of naturals in ascending order (BTreeMap iteration order)
SortedSeq(S) == IF S = {} THEN << >> ELSE <<Min(S)>> \o SortedSeq(S \ {Min(S)})

RECURSIVE SumSeq(_)
SumSeq(s) == IF s = << >> THEN 0 ELSE Head(s) + SumSeq(Tail(s))

RECURSIVE Repeat(_, _)
\* iter::repeat(x).take(n)
Repeat(x, n) == IF n <= 0 THEN << >> ELSE <<x>> \o Repeat(x, n - 1)

Swap(s, i, j) == [s EXCEPT ![i] = s[j], ![j] = s[i]]

-----------------------------------------------------------------------------
(* Errors (ValidatorError). *)

ThresholdError(stakes_sum, num_seats) ==
    [kind |-> "ThresholdError", stakes_sum |-> stakes_sum, num_seats |-> num_seats]
EpochOutOfBounds == [kind |-> "EpochOutOfBounds"]
SelectedSeatsMismatch(selected, required) ==
    [kind |-> "SelectedSeatsMismatch", selected |-> selected, required |-> required]
MissingBlock(hash) == [kind |-> "MissingBlock", hash |-> hash]
Other(msg) == [kind |-> "Other", msg |-> msg]

Ok(v) == [ok |-> TRUE, value |-> v]
Err(e) == [ok |-> FALSE, err |-> e]
\* a call that never returns (its loop runs forever)
Diverges == [ok |-> FALSE, err |-> [kind |-> "diverges"]]
\* a call that panics (unwrap of None, assert!(false), checked overflow)
Panic(what) == [ok |-> FALSE, err |-> [kind |-> "panic", what |-> what]]

-----------------------------------------------------------------------------
(* find_threshold *)

RECURSIVE InnerLoopStrict(_, _, _, _, _)
\* mutant: the comparison is made strict
InnerLoopStrict(stakes, i, current_sum, mid, num_seats) ==
    IF i > Len(stakes) THEN FALSE
    ELSE LET s == current_sum + (stakes[i] \div mid)
         IN  IF s > num_seats THEN TRUE
             ELSE InnerLoopStrict(stakes, i + 1, s, mid, num_seats)

RECURSIVE InnerLoop(_, _, _, _, _)
\* the `for item in stakes.iter()` loop from item i on: TRUE when it reaches
\* `continue 'outer` (current_sum >= num_seats after some item), FALSE when
\* it runs off the end of the list
InnerLoop(stakes, i, current_sum, mid, num_seats) ==
    IF i > Len(stakes) THEN FALSE
    ELSE LET s == current_sum + (stakes[i] \div mid)
         IN  IF s >= num_seats THEN TRUE
             ELSE InnerLoop(stakes, i + 1, s, mid, num_seats)

\* one pass of `'outer: loop` that does not break: the new (left, right)
ThresholdIter(stakes, num_seats, left, right) ==
    LET mid == (left + right) \div 2
    IN  IF InnerLoop(stakes, 1, 0, mid, num_seats)
        THEN <<mid, right>>
        ELSE <<left, mid>>

RECURSIVE ThresholdLoop(_, _, _, _)
\* `'outer: loop` run to its end; a pass that changes neither bound repeats forever
ThresholdLoop(stakes, num_seats, left, right) ==
    IF left = right - 1 THEN Ok(left)
    ELSE LET n == ThresholdIter(stakes, num_seats, left, right)
         IN  IF n = <<left, right>> THEN Diverges
             ELSE ThresholdLoop(stakes, num_seats, n[1], n[2])

find_threshold(stakes, num_seats) ==
    LET stakes_sum == SumSeq(stakes)
    IN  IF stakes_sum < num_seats
        THEN Err(ThresholdError(stakes_sum, num_seats))
        ELSE ThresholdLoop(stakes, num_seats, 1, stakes_sum + 1)

-----------------------------------------------------------------------------
(* proposals_to_assignments *)

Stake(account_id, amount) == [account_id |-> account_id, amount |-> amount]

\* ValidatorAssignment::default()
DefaultAssignment ==
    [validators |-> << >>, validator_to_index |-> EmptyMap,
     block_producers |-> << >>, chunk_producers |-> << >>, fishermen |-> << >>,
     expected_epoch_start |-> 0, stake_change |-> EmptyMap]

RECURSIVE ProposalsLoop(_, _, _, _, _)
\* lines 118-126, from proposal i on: a kicked-out account's proposal is
\* recorded as (0, amount); any other overwrites the account's entry
ProposalsLoop(proposals, validator_kickout, i, ordered_proposals, stake_change) ==
    IF i > Len(proposals)
    THEN [ordered_proposals |-> ordered_proposals, stake_change |-> stake_change]
    ELSE LET p == proposals[i]
         IN  IF MapGetOr(validator_kickout, p.account_id, FALSE)
             THEN ProposalsLoop(proposals, validator_kickout, i + 1, ordered_proposals,
                                MapPut(stake_change, p.account_id, <<0, p.amount>>))
             ELSE ProposalsLoop(proposals, validator_kickout, i + 1,
                                MapPut(ordered_proposals, p.account_id, p), stake_change)

\* mutant: a validator lowering its stake gets nothing back
RolloverEntryNoReturn(r, p) == <<p.amount, 0>>

\* lines 130-132: the entry of a prior validator r that has the proposal p
RolloverEntry(r, p) ==
    <<p.amount, IF r.amount > p.amount THEN r.amount - p.amount ELSE 0>>

RECURSIVE RolloverLoop(_, _, _, _, _)
\* lines 127-142, from prior validator i on
RolloverLoop(validators, validator_kickout, i, ordered_proposals, stake_change) ==
    IF i > Len(validators)
    THEN [ordered_proposals |-> ordered_proposals, stake_change |-> stake_change]
    ELSE LET r == validators[i]
         IN  IF r.account_id \in DOMAIN ordered_proposals
             THEN RolloverLoop(validators, validator_kickout, i + 1, ordered_proposals,
                      MapPut(stake_change, r.account_id,
                             RolloverEntry(r, ordered_proposals[r.account_id])))
             ELSE IF ~MapGetOr(validator_kickout, r.account_id, TRUE)
             THEN RolloverLoop(validators, validator_kickout, i + 1,
                      MapPut(ordered_proposals, r.account_id, r), stake_change)
             ELSE RolloverLoop(validators, validator_kickout, i + 1, ordered_proposals,
                      MapPut(stake_change, r.account_id, <<0, r.amount>>))

\* lines 115-142: proposals combined with rollovers
CombineProposals(current_assignments, proposals, validator_kickout) ==
    LET a == ProposalsLoop(proposals, validator_kickout, 1, EmptyMap, EmptyMap)
    IN  RolloverLoop(current_assignments.validators, validator_kickout, 1,
                     a.ordered_proposals, a.stake_change)

\* lines 145-146
NumSeats(epoch_config) ==
    epoch_config.num_block_producers + SumSeq(epoch_config.avg_fisherman_per_shard)

\* line 147: the amounts in the BTreeMap's key order
StakesOf(ordered_proposals) ==
    Let(SortedSeq(DOMAIN ordered_proposals), LAMBDA keys :
        Table([i \in 1..Len(keys) |-> ordered_proposals[keys[i]].amount]))

\* mutant: an entry that is there is left as it is
UnderThresholdEntryKept(stake_change, p) ==
    IF p.account_id \in DOMAIN stake_change
    THEN stake_change[p.account_id]
    ELSE <<0, p.amount>>

\* lines 158-166: the entry of an account whose amount is under the threshold
UnderThresholdEntry(stake_change, p) ==
    IF p.account_id \in DOMAIN stake_change
    THEN LET e == stake_change[p.account_id]
         IN  IF e[1] # 0 THEN <<0, e[2] + e[1]>> ELSE e
    ELSE <<0, p.amount>>

RECURSIVE FilterLoopStrict(_, _, _, _, _, _)
\* mutant: a proposal of exactly the threshold does not survive
FilterLoopStrict(keys, ordered_proposals, threshold, i, final_proposals, stake_change) ==
    IF i > Len(keys)
    THEN [final_proposals |-> final_proposals, stake_change |-> stake_change]
    ELSE LET p == ordered_proposals[keys[i]]
         IN  IF p.amount > threshold
             THEN FilterLoopStrict(keys, ordered_proposals, threshold, i + 1,
                      Append(final_proposals, p),
                      IF p.account_id \in DOMAIN stake_change
                      THEN stake_change
                      ELSE MapPut(stake_change, p.account_id, <<p.amount, 0>>))
             ELSE FilterLoopStrict(keys, ordered_proposals, threshold, i + 1,
                      final_proposals,
                      MapPut(stake_change, p.account_id,
                             UnderThresholdEntry(stake_change, p)))

RECURSIVE FilterLoop(_, _, _, _, _, _)
\* lines 151-168, from key i of ordered_proposals on
FilterLoop(keys, ordered_proposals, threshold, i, final_proposals, stake_change) ==
    IF i > Len(keys)
    THEN [final_proposals |-> final_proposals, stake_change |-> stake_change]
    ELSE LET p == ordered_proposals[keys[i]]
         IN  IF p.amount >= threshold
             THEN FilterLoop(keys, ordered_proposals, threshold, i + 1,
                      Append(final_proposals, p),
                      IF p.account_id \in DOMAIN stake_change
                      THEN stake_change
                      ELSE MapPut(stake_change, p.account_id, <<p.amount, 0>>))
             ELSE FilterLoop(keys, ordered_proposals, threshold, i + 1,
                      final_proposals,
                      MapPut(stake_change, p.account_id,
                             UnderThresholdEntry(stake_change, p)))

\* lines 115-168: the bookkeeping up to the point where the seats are drawn:
\* the threshold (or find_threshold's error), the surviving proposals in
\* account order and the two-valued stake_change
StakeBookkeeping(epoch_config, current_assignments, proposals, validator_kickout) ==
    Let(CombineProposals(current_assignments, proposals, validator_kickout), LAMBDA c :
    Let(find_threshold(StakesOf(c.ordered_proposals), NumSeats(epoch_config)),
        LAMBDA threshold :
        IF ~threshold.ok THEN threshold
        ELSE Let(FilterLoop(SortedSeq(DOMAIN c.ordered_proposals), c.ordered_proposals,
                            threshold.value, 1, << >>, c.stake_change), LAMBDA f :
                 Ok([threshold |-> threshold.value,
                     ordered_proposals |-> c.ordered_proposals,
                     final_proposals |-> f.final_proposals,
                     stake_change |-> f.stake_change]))))

\* the rand crate's generator, abstracted: the k-th draw of a generator seeded
\* with seed, reduced to 0..n-1; a fixed function of (seed, k, n)
GenRange(seed, k, n) == ((seed + 1) * (k + 2) + k) % n

RECURSIVE ShuffleFrom(_, _, _, _)
\* SliceRandom::shuffle: for i in (1..len).rev() { swap(i, gen_range(0, i + 1)) }
\* (i is the 0-based position, k counts the draws)
ShuffleFrom(s, i, k, seed) ==
    IF i < 1 THEN s
    ELSE ShuffleFrom(Swap(s, i + 1, GenRange(seed, k, i + 1) + 1), i - 1, k + 1, seed)

\* lines 190-191
Shuffle(s, seed) == ShuffleFrom(s, Len(s) - 1, 0, seed)

RECURSIVE DupProposalsOneBased(_, _, _)
\* mutant: the seats carry the validators' positions counted from 1
DupProposalsOneBased(final_proposals, threshold, i) ==
    IF i >= Len(final_proposals) THEN << >>
    ELSE Repeat(i + 1, final_proposals[i + 1].amount \div threshold)
         \o DupProposalsOneBased(final_proposals, threshold, i + 1)

RECURSIVE DupProposals(_, _, _)
\* lines 180-184: ValidatorId i repeated amount / threshold times, from i on
DupProposals(final_proposals, threshold, i) ==
    IF i >= Len(final_proposals) THEN << >>
    ELSE Repeat(i, final_proposals[i + 1].amount \div threshold)
         \o DupProposals(final_proposals, threshold, i + 1)

RECURSIVE ChunkProducersCapped(_, _, _, _)
\* mutant: a shard gets no more seats than there are block producers
ChunkProducersCapped(epoch_config, dup_proposals, s, last_index) ==
    IF s >= Len(epoch_config.block_producers_per_shard) THEN << >>
    ELSE LET num_seats == Min({epoch_config.block_producers_per_shard[s + 1],
                               epoch_config.num_block_producers})
             cp == Table([i \in 1..num_seats |->
                      dup_proposals[(((i - 1) + last_index)
                                      % epoch_config.num_block_producers) + 1]])
         IN  <<cp>> \o ChunkProducersCapped(epoch_config, dup_proposals, s + 1,
                           (last_index + num_seats) % epoch_config.num_block_producers)

RECURSIVE ChunkProducersRestart(_, _, _, _)
\* mutant: every shard starts at the first seat
ChunkProducersRestart(epoch_config, dup_proposals, s, last_index) ==
    IF s >= Len(epoch_config.block_producers_per_shard) THEN << >>
    ELSE LET num_seats == epoch_config.block_producers_per_shard[s + 1]
             cp == Table([i \in 1..num_seats |->
                      dup_proposals[(((i - 1) + last_index)
                                      % epoch_config.num_block_producers) + 1]])
         IN  <<cp>> \o ChunkProducersRestart(epoch_config, dup_proposals, s + 1, 0)

RECURSIVE ChunkProducers(_, _, _, _)
\* lines 197-207, from shard s on (0-based), with the cursor last_index
ChunkProducers(epoch_config, dup_proposals, s, last_index) ==
    IF s >= Len(epoch_config.block_producers_per_shard) THEN << >>
    ELSE LET num_seats == epoch_config.block_producers_per_shard[s + 1]
             cp == Table([i \in 1..num_seats |->
                      dup_proposals[(((i - 1) + last_index)
                                      % epoch_config.num_block_producers) + 1]])
         IN  <<cp>> \o ChunkProducers(epoch_config, dup_proposals, s + 1,
                           (last_index + num_seats) % epoch_config.num_block_producers)

\* mutant: one epoch length is added
ExpectedEpochStartOnce(epoch_config, current_assignments) ==
    IF current_assignments.expected_epoch_start = 0
       /\ current_assignments.validators = << >>
    THEN 0
    ELSE current_assignments.expected_epoch_start + epoch_config.epoch_length

\* lines 210-220
ExpectedEpochStart(epoch_config, current_assignments) ==
    IF current_assignments.expected_epoch_start = 0
       /\ current_assignments.validators = << >>
    THEN 0
    ELSE current_assignments.expected_epoch_start + 2 * epoch_config.epoch_length

\* line 222
FlattenStakeChange(stake_change) ==
    Table([a \in DOMAIN stake_change |-> stake_change[a][1]])

\* lines 170-176: the index of each surviving account
ValidatorToIndex(final_proposals) ==
    Table([a \in {final_proposals[i].account_id : i \in 1..Len(final_proposals)} |->
              (CHOOSE i \in 1..Len(final_proposals) : final_proposals[i].account_id = a) - 1])

\* lines 178-232: the seats drawn from the bookkeeping b
AssignSeats(epoch_config, current_assignments, b) ==
    Let(DupProposals(b.final_proposals, b.threshold, 0), LAMBDA dup_proposals :
        IF Len(dup_proposals) < NumSeats(epoch_config)
        THEN Err(SelectedSeatsMismatch(Len(dup_proposals), NumSeats(epoch_config)))
        ELSE Let(Shuffle(dup_proposals, epoch_config.rng_seed), LAMBDA shuffled :
                 Ok([validators |-> b.final_proposals,
                     validator_to_index |-> ValidatorToIndex(b.final_proposals),
                     block_producers |->
                         SubSeq(shuffled, 1, epoch_config.num_block_producers),
                     chunk_producers |-> ChunkProducers(epoch_config, shuffled, 0, 0),
                     fishermen |-> << >>,
                     expected_epoch_start |->
                         ExpectedEpochStart(epoch_config, current_assignments),
                     stake_change |-> FlattenStakeChange(b.stake_change)])))

proposals_to_assignments(epoch_config, current_assignments, proposals, validator_kickout) ==
    Let(StakeBookkeeping(epoch_config, current_assignments, proposals, validator_kickout),
        LAMBDA b : IF ~b.ok THEN b
                   ELSE AssignSeats(epoch_config, current_assignments, b.value))

-----------------------------------------------------------------------------
(* find_threshold as a process: one step per pass of the outer loop. *)

StakeLists == UNION {[1..k -> 0..MaxStake] : k \in 0..MaxStakes}

NoResult == [ok |-> FALSE, err |-> [kind |-> "none"]]

ThresholdIdle ==
    /\ th_stakes = << >>
    /\ th_num_seats = 0
    /\ th_pc = "idle"
    /\ th_left = 0
    /\ th_right = 0
    /\ th_result = NoResult

ThresholdCall ==
    /\ th_stakes \in StakeLists
    /\ th_num_seats \in 0..MaxSeats
    /\ th_pc = "entry"
    /\ th_left = 0
    /\ th_right = 0
    /\ th_result = NoResult

\* lines 86-90: the sum, the error return, the initial bounds
ThresholdEnter ==
    /\ th_pc = "entry"
    /\ LET stakes_sum == SumSeq(th_stakes)
       IN  IF stakes_sum < th_num_seats
           THEN /\ th_result' = Err(ThresholdError(stakes_sum, th_num_seats))
                /\ th_pc' = "done"
                /\ UNCHANGED <<th_left, th_right>>
           ELSE /\ th_left' = 1
                /\ th_right' = stakes_sum + 1
                /\ th_pc' = "loop"
                /\ UNCHANGED th_result
    /\ UNCHANGED <<th_stakes, th_num_seats, pa_vars, cache_vars, em_vars>>

\* lines 91-105: one pass of the outer loop
ThresholdPass ==
    /\ th_pc = "loop"
    /\ IF th_left = th_right - 1
       THEN /\ th_result' = Ok(th_left)
            /\ th_pc' = "done"
            /\ UNCHANGED <<th_left, th_right>>
       ELSE LET n == ThresholdIter(th_stakes, th_num_seats, th_left, th_right)
            IN  /\ th_left' = n[1]
                /\ th_right' = n[2]
                /\ UNCHANGED <<th_pc, th_result>>
    /\ UNCHANGED <<th_stakes, th_num_seats, pa_vars, cache_vars, em_vars>>

-----------------------------------------------------------------------------
(* proposals_to_assignments as a call: the inputs are drawn, one step applies it. *)

\* the accounts of the calls drawn for proposals_to_assignments
PureAccounts == {1, 2}

\* config(epoch_length, num_shards, num_block_producers, num_fisherman, 0.9) of
\* the tests, with the kickout threshold as the fraction 9/10
Config(epoch_length, rng_seed, num_block_producers, per_shard, fishermen) ==
    [epoch_length |-> epoch_length, rng_seed |-> rng_seed,
     num_shards |-> Len(per_shard),
     num_block_producers |-> num_block_producers,
     block_producers_per_shard |-> per_shard,
     avg_fisherman_per_shard |-> fishermen,
     validator_kickout_threshold |-> <<9, 10>>]

\* one shard and no fishermen as in test_validator_unstake; two shards, the
\* first with more seats than block producers, one fisherman, another seed
PureConfigs ==
    {Config(2, 0, 2, <<2>>, <<0>>), Config(2, 1, 2, <<3, 1>>, <<1, 0>>)}

\* a list of stakes with one entry per account of the map, in account order
StakeList(m) ==
    LET keys == SortedSeq(DOMAIN m)
    IN  [i \in 1..Len(keys) |-> Stake(keys[i], m[keys[i]])]

InitialValidatorLists ==
    {StakeList(m) : m \in UNION {[A -> 1..MaxAmount] : A \in SUBSET PureAccounts}}

\* the prior assignments a call can see: the empty default, the pre-genesis
\* assignment ValidatorManager::new computes from some initial validators, and
\* the copy add_proposals stores for a genesis block
PriorAssignments(epoch_config) ==
    LET pre == {proposals_to_assignments(epoch_config, DefaultAssignment, l, EmptyMap) :
                   l \in InitialValidatorLists}
        good == {r.value : r \in {x \in pre : x.ok}}
    IN  {DefaultAssignment} \cup good
        \cup {[a EXCEPT !.expected_epoch_start = epoch_config.epoch_length] : a \in good}

ProposalLists ==
    UNION {[1..k -> {Stake(a, n) : a \in PureAccounts, n \in 0..MaxAmount}] :
              k \in 0..MaxProposals}

KickoutMaps == UNION {[A -> BOOLEAN] : A \in SUBSET PureAccounts}

AssignIdle ==
    /\ pa_config = Config(2, 0, 2, <<2>>, <<0>>)
    /\ pa_current = DefaultAssignment
    /\ pa_proposals = << >>
    /\ pa_kickout = EmptyMap
    /\ pa_pc = "idle"
    /\ pa_result = NoResult
    /\ pa_stake_change = EmptyMap

AssignCall ==
    /\ pa_config \in PureConfigs
    /\ pa_current \in PriorAssignments(pa_config)
    /\ pa_proposals \in ProposalLists
    /\ pa_kickout \in KickoutMaps
    /\ pa_pc = "entry"
    /\ pa_result = NoResult
    /\ pa_stake_change = EmptyMap

\* one seat in all, as in test_one_validator_kickout: a stake can be positive
\* and under the threshold
FilterConfigs == {Config(2, 0, 1, <<1>>, <<0>>)}

\* a call with few seats
FilterCall ==
    /\ pa_config \in FilterConfigs
    /\ pa_current \in PriorAssignments(pa_config)
    /\ pa_proposals \in ProposalLists
    /\ pa_kickout \in KickoutMaps
    /\ pa_pc = "entry"
    /\ pa_result = NoResult
    /\ pa_stake_change = EmptyMap

\* the accounts of the calls drawn for the seats of several shards
RingAccounts == 1..3

\* three block producers, two shards, the second with more seats than block
\* producers, and a fisherman; two block producers and three shards, the
\* first with more seats than block producers, another seed
RingConfigs ==
    {Config(2, 0, 3, <<2, 4>>, <<1, 0>>), Config(2, 1, 2, <<3, 1, 2>>, <<0, 0, 0>>)}

RingProposalLists ==
    UNION {[1..k -> {Stake(a, n) : a \in RingAccounts, n \in 1..MaxAmount}] :
              k \in 0..MaxProposals}

\* a call as ValidatorManager::new makes it, with several shards
RingCall ==
    /\ pa_config \in RingConfigs
    /\ pa_current = DefaultAssignment
    /\ pa_proposals \in RingProposalLists
    /\ pa_kickout = EmptyMap
    /\ pa_pc = "entry"
    /\ pa_result = NoResult
    /\ pa_stake_change = EmptyMap

\* one seat, two seats, and three block producers with a fisherman
SeatsConfigs == FilterConfigs \cup RingConfigs

\* proposals of three accounts, unstakes among them
SeatsProposalLists ==
    UNION {[1..k -> {Stake(a, n) : a \in RingAccounts, n \in 0..MaxAmount}] :
              k \in 0..MaxProposals}

\* a call whose stakes fill the seats, fall short of them, or are in part
\* under the threshold
SeatsCall ==
    /\ pa_config \in SeatsConfigs
    /\ pa_current = DefaultAssignment
    /\ pa_proposals \in SeatsProposalLists
    /\ pa_kickout \in KickoutMaps
    /\ pa_pc = "entry"
    /\ pa_result = NoResult
    /\ pa_stake_change = EmptyMap

ProposalsToAssignments ==
    /\ pa_pc = "entry"
    /\ pa_result' = proposals_to_assignments(pa_config, pa_current, pa_proposals, pa_kickout)
    /\ pa_stake_change' =
           LET b == StakeBookkeeping(pa_config, pa_current, pa_proposals, pa_kickout)
           IN  IF b.ok THEN b.value.stake_change ELSE EmptyMap
    /\ pa_pc' = "done"
    /\ UNCHANGED <<pa_config, pa_current, pa_proposals, pa_kickout, th_vars, cache_vars,
                   em_vars>>

-----------------------------------------------------------------------------
(* The encoded-chunk cache (chunk_cache.rs). *)

HEIGHT_HORIZON == 1024
MAX_HEIGHTS_AHEAD == 5
NUM_BLOCK_HASH_TO_CHUNK_HEADER == 10

\* u64::saturating_sub
SaturatingSub(a, b) == IF a >= b THEN a - b ELSE 0

ChunkHashes == {1, 2}
PartOrds == {0, 1}
ShardIds == {0}
\* what a part or a receipt proof carries
Payloads == {"x", "y"}

\* A chunk hash is the hash of the chunk's header: the header a chunk hash
\* comes with, and with it height_created, is fixed by the hash.
HeaderOf(chunk_hash) == [height_created |-> IF chunk_hash = 1 THEN 10 ELSE 976]

\* the heights update_largest_seen_height is called with
TipHeights == {5, 2000, 2001}

Part(part_ord, payload) == [part_ord |-> part_ord, payload |-> payload]
Receipt(to_shard_id, payload) == [to_shard_id |-> to_shard_id, payload |-> payload]

PartLists ==
    UNION {[1..k -> {Part(o, d) : o \in PartOrds, d \in Payloads}] : k \in 0..MaxParts}

ReceiptLists ==
    UNION {[1..k -> {Receipt(t, d) : t \in ShardIds, d \in Payloads}] :
              k \in 0..MaxReceipts}

PartialEncodedChunk(chunk_hash, header, parts, receipts) ==
    [chunk_hash |-> chunk_hash, header |-> header, parts |-> parts, receipts |-> receipts]

\* The partials that arrive: the header, when there is one, is the chunk's.
\* Chunk 1 arrives with any parts and receipts; of chunk 2 only the header
\* (or nothing) arrives, its entry is there to be swept.
Partials ==
    {PartialEncodedChunk(1, h, ps, rs) :
        h \in {<< >>, <<HeaderOf(1)>>}, ps \in PartLists, rs \in ReceiptLists}
    \cup {PartialEncodedChunk(2, h, << >>, << >>) : h \in {<< >>, <<HeaderOf(2)>>}}

\* EncodedChunksCacheEntry::from_chunk_header
from_chunk_header(header) == [header |-> header, parts |-> EmptyMap, receipts |-> EmptyMap]

RECURSIVE MergePartsOverwrite(_, _, _)
\* mutant: a part that is already stored is replaced
MergePartsOverwrite(parts, incoming, i) ==
    IF i > Len(incoming) THEN parts
    ELSE MergePartsOverwrite(MapPut(parts, incoming[i].part_ord, incoming[i]), incoming, i + 1)

RECURSIVE MergeParts(_, _, _)
\* lines 34-39, from part i of the partial on
MergeParts(parts, incoming, i) ==
    IF i > Len(incoming) THEN parts
    ELSE LET part_ord == incoming[i].part_ord
         IN  IF part_ord \notin DOMAIN parts
             THEN MergeParts(MapPut(parts, part_ord, incoming[i]), incoming, i + 1)
             ELSE MergeParts(parts, incoming, i + 1)

RECURSIVE MergeReceipts(_, _, _)
\* lines 41-46, from receipt i of the partial on
MergeReceipts(receipts, incoming, i) ==
    IF i > Len(incoming) THEN receipts
    ELSE LET shard_id == incoming[i].to_shard_id
         IN  IF shard_id \notin DOMAIN receipts
             THEN MergeReceipts(MapPut(receipts, shard_id, incoming[i]), incoming, i + 1)
             ELSE MergeReceipts(receipts, incoming, i + 1)

\* EncodedChunksCacheEntry::merge_in_partial_encoded_chunk
EntryMerge(entry, partial_encoded_chunk) ==
    [entry EXCEPT !.parts = MergeParts(entry.parts, partial_encoded_chunk.parts, 1),
                  !.receipts = MergeReceipts(entry.receipts,
                                             partial_encoded_chunk.receipts, 1)]

\* get_or_insert_from_header: the map with the entry in place (the unwrap of
\* a missing header is guarded by the caller's test at line 98)
get_or_insert_from_header(chunks, chunk_hash, chunk_header) ==
    IF chunk_hash \in DOMAIN chunks THEN chunks
    ELSE MapPut(chunks, chunk_hash, from_chunk_header(chunk_header[1]))

\* mutant: a partial without a header is taken for a chunk that is not cached
MergeAcceptsAlways(chunks, partial_encoded_chunk) == TRUE

\* line 98
MergeAccepts(chunks, partial_encoded_chunk) ==
    \/ partial_encoded_chunk.chunk_hash \in DOMAIN chunks
    \/ partial_encoded_chunk.header # << >>

\* EncodedChunksCache::merge_in_partial_encoded_chunk: the returned bool and
\* the map afterwards
merge_in_partial_encoded_chunk(chunks, partial_encoded_chunk) ==
    LET chunk_hash == partial_encoded_chunk.chunk_hash
    IN  IF MergeAccepts(chunks, partial_encoded_chunk)
        THEN LET with == IF chunk_hash \in DOMAIN chunks \/ partial_encoded_chunk.header # << >>
                         THEN get_or_insert_from_header(chunks, chunk_hash,
                                                        partial_encoded_chunk.header)
                         ELSE chunks
             IN  IF chunk_hash \in DOMAIN with
                 THEN [ret |-> TRUE,
                       chunks |-> [with EXCEPT ![chunk_hash] =
                                      EntryMerge(with[chunk_hash], partial_encoded_chunk)]]
                 ELSE [ret |-> TRUE, chunks |-> with]
        ELSE [ret |-> FALSE, chunks |-> chunks]

\* height_within_horizon
height_within_horizon(largest, height) ==
    IF height + HEIGHT_HORIZON < largest THEN FALSE
    ELSE IF height > largest + MAX_HEIGHTS_AHEAD THEN FALSE
    ELSE TRUE

MapRemove(m, S) == [x \in DOMAIN m \ S |-> m[x]]

\* lines 123-133: the chunk hashes the sweep removes: those listed in
\* height_map under a height of the range that requested_chunks does not hold
SweptChunks(heights, old_height, new_height, requested_chunks) ==
    {c \in ChunkHashes :
        /\ c \notin requested_chunks
        /\ \E h \in DOMAIN heights :
              /\ SaturatingSub(old_height, HEIGHT_HORIZON) <= h
              /\ h < SaturatingSub(new_height, HEIGHT_HORIZON)
              /\ \E i \in 1..Len(heights[h]) : heights[h][i] = c}

SweptHeights(heights, old_height, new_height) ==
    {h \in DOMAIN heights :
        /\ SaturatingSub(old_height, HEIGHT_HORIZON) <= h
        /\ h < SaturatingSub(new_height, HEIGHT_HORIZON)}

CacheLast(op, ret, again) == [op |-> op, ret |-> ret, again |-> again]

\* the first element of the list under the key (key_of names the key field)
FirstWith(list, key_of(_), k) ==
    list[Min({i \in 1..Len(list) : key_of(list[i]) = k})]

PartOrdOf(part) == part.part_ord
ToShardIdOf(receipt) == receipt.to_shard_id

\* the history after a partial was accepted: keys recorded stay, a key the
\* partial brings for the first time is recorded with the first element under it
FirstAcceptedAfter(seen, list, key_of(_)) ==
    LET new == {key_of(list[i]) : i \in 1..Len(list)}
    IN  [k \in DOMAIN seen \cup new |->
            IF k \in DOMAIN seen THEN seen[k] ELSE FirstWith(list, key_of, k)]

NothingAccepted == [parts |-> EmptyMap, receipts |-> EmptyMap]

\* a ShardChunkHeader, as far as the index reads it
Header(height_created, prev_block_hash) ==
    [height_created |-> height_created, prev_block_hash |-> prev_block_hash]

\* the block hash whose bucket is followed in full, and the block hashes that
\* come after it, each with one header, as the chain grows
TrackedHash == 1
LaterHashes == 2..(NUM_BLOCK_HASH_TO_CHUNK_HEADER + 2)
HeaderHashes == {TrackedHash} \cup LaterHashes

\* the (shard_id, header) pairs presented for the followed block hash
TrackedPairs ==
    {<<0, Header(0, TrackedHash)>>, <<0, Header(1, TrackedHash)>>,
     <<0, Header(1991, TrackedHash)>>, <<1, Header(1992, TrackedHash)>>}

\* the pair presented for a later block hash
LaterPair(prev_block_hash) == <<0, Header(1992, prev_block_hash)>>

\* a call on the index: the block hash and, for an insertion, the pair it was
\* about, whether the pair was accepted, and the list returned
HeadersLast(op, prev_block_hash, pair, accepted, ret) ==
    [op |-> op, prev_block_hash |-> prev_block_hash, pair |-> pair,
     accepted |-> accepted, ret |-> ret]

ChunkHeaders(index, accepted, gone, last) ==
    [block_hash_to_chunk_headers |-> index, accepted_since |-> accepted,
     displaced |-> gone, last |-> last]

\* SizedCache: the keys it holds
LruKeys(cache) == {cache[i].key : i \in 1..Len(cache)}

\* SizedCache::cache_remove: the value under the key, if any, and the cache
\* without it
LruRemove(cache, key) ==
    [value |-> {cache[i].value : i \in {j \in 1..Len(cache) : cache[j].key = key}},
     cache |-> SelectSeq(cache, LAMBDA e : e.key # key)]

\* SizedCache::cache_set for a key the cache does not hold: at capacity the
\* least recently set entry goes
LruSet(cache, key, value) ==
    LET room == IF Len(cache) >= NUM_BLOCK_HASH_TO_CHUNK_HEADER THEN Tail(cache) ELSE cache
    IN  Append(SelectSeq(room, LAMBDA e : e.key # key), [key |-> key, value |-> value])

\* the bucket under the key, empty if there is none
Bucket(cache, key) ==
    LET r == LruRemove(cache, key)
    IN  IF r.value = {} THEN << >> ELSE CHOOSE v \in r.value : TRUE

\* lines 137-139
HeaderAccepted(largest, header) ==
    header.height_created > SaturatingSub(largest, NUM_BLOCK_HASH_TO_CHUNK_HEADER)

\* insert_chunk_header: the index afterwards
insert_chunk_header(cache, largest, shard_id, header) ==
    IF HeaderAccepted(largest, header)
    THEN LET r == LruRemove(cache, header.prev_block_hash)
             bucket == IF r.value = {} THEN << >> ELSE CHOOSE v \in r.value : TRUE
         IN  LruSet(r.cache, header.prev_block_hash, Append(bucket, <<shard_id, header>>))
    ELSE cache

\* mutant: the bucket is read and stays
GetChunkHeadersKept(cache, prev_block_hash) ==
    [ret |-> Bucket(cache, prev_block_hash), cache |-> cache]

\* get_chunk_headers_for_block: the returned list and the index afterwards
get_chunk_headers_for_block(cache, prev_block_hash) ==
    [ret |-> Bucket(cache, prev_block_hash),
     cache |-> LruRemove(cache, prev_block_hash).cache]

\* EncodedChunksCache::new
CacheNew ==
    /\ largest_seen_height = 0
    /\ encoded_chunks = EmptyMap
    /\ height_map = EmptyMap
    /\ first_accepted = EmptyMap
    /\ cache_last = CacheLast("new", TRUE, FALSE)
    /\ chunk_headers = ChunkHeaders(<< >>, EmptyMap, {},
                                    HeadersLast("new", 0, << >>, FALSE, << >>))

\* EncodedChunksCache::insert, with an entry made from the chunk's header
CacheInsert ==
    \E chunk_hash \in ChunkHashes :
        /\ encoded_chunks' = MapPut(encoded_chunks, chunk_hash,
                                    from_chunk_header(HeaderOf(chunk_hash)))
        /\ first_accepted' = MapPut(first_accepted, chunk_hash, NothingAccepted)
        /\ cache_last' = CacheLast("insert", TRUE, FALSE)
        /\ UNCHANGED <<largest_seen_height, height_map, hdr_vars, th_vars, pa_vars, em_vars>>

\* EncodedChunksCache::remove
CacheRemove ==
    \E chunk_hash \in ChunkHashes :
        /\ encoded_chunks' = MapRemove(encoded_chunks, {chunk_hash})
        /\ first_accepted' = MapRemove(first_accepted, {chunk_hash})
        /\ cache_last' = CacheLast("remove", chunk_hash \in DOMAIN encoded_chunks, FALSE)
        /\ UNCHANGED <<largest_seen_height, height_map, hdr_vars, th_vars, pa_vars, em_vars>>

\* whether the partial carries, under a key the entry holds, another payload
CarriesStoredKey(chunks, p) ==
    /\ p.chunk_hash \in DOMAIN chunks
    /\ LET e == chunks[p.chunk_hash]
       IN  \/ \E i \in 1..Len(p.parts) :
                 /\ p.parts[i].part_ord \in DOMAIN e.parts
                 /\ e.parts[p.parts[i].part_ord] # p.parts[i]
           \/ \E i \in 1..Len(p.receipts) :
                 /\ p.receipts[i].to_shard_id \in DOMAIN e.receipts
                 /\ e.receipts[p.receipts[i].to_shard_id] # p.receipts[i]

MergeInPartialEncodedChunk(partial_encoded_chunk) ==
    LET r == merge_in_partial_encoded_chunk(encoded_chunks, partial_encoded_chunk)
        c == partial_encoded_chunk.chunk_hash
        seen == MapGetOr(first_accepted, c, NothingAccepted)
    IN  /\ encoded_chunks' = r.chunks
        /\ first_accepted' =
              IF r.ret
              THEN MapPut(first_accepted, c,
                       [parts |-> FirstAcceptedAfter(seen.parts,
                                      partial_encoded_chunk.parts, PartOrdOf),
                        receipts |-> FirstAcceptedAfter(seen.receipts,
                                      partial_encoded_chunk.receipts, ToShardIdOf)])
              ELSE first_accepted
        /\ cache_last' = CacheLast("merge_in_partial_encoded_chunk", r.ret,
                                   CarriesStoredKey(encoded_chunks, partial_encoded_chunk))
        /\ UNCHANGED <<largest_seen_height, height_map, hdr_vars, th_vars, pa_vars, em_vars>>

CacheMerge == \E p \in Partials : MergeInPartialEncodedChunk(p)

\* remove_from_cache_if_outside_horizon
RemoveFromCacheIfOutsideHorizon ==
    \E chunk_hash \in ChunkHashes :
        /\ encoded_chunks' =
              IF /\ chunk_hash \in DOMAIN encoded_chunks
                 /\ ~height_within_horizon(largest_seen_height,
                        encoded_chunks[chunk_hash].header.height_created)
              THEN MapRemove(encoded_chunks, {chunk_hash})
              ELSE encoded_chunks
        /\ first_accepted' = MapRemove(first_accepted, ChunkHashes \ DOMAIN encoded_chunks')
        /\ cache_last' = CacheLast("remove_from_cache_if_outside_horizon", TRUE, FALSE)
        /\ UNCHANGED <<largest_seen_height, height_map, hdr_vars, th_vars, pa_vars, em_vars>>

\* update_largest_seen_height(new_height, requested_chunks); requested_chunks
\* is read through cache_get only, so it is the set of hashes it holds
UpdateLargestSeenHeight(new_height, requested_chunks) ==
    /\ largest_seen_height' = new_height
    /\ height_map' = MapRemove(height_map,
                               SweptHeights(height_map, largest_seen_height, new_height))
    /\ encoded_chunks' = MapRemove(encoded_chunks,
                             SweptChunks(height_map, largest_seen_height, new_height,
                                         requested_chunks))
    /\ first_accepted' = MapRemove(first_accepted, ChunkHashes \ DOMAIN encoded_chunks')
    /\ cache_last' = CacheLast("update_largest_seen_height", TRUE, FALSE)
    /\ UNCHANGED <<hdr_vars, th_vars, pa_vars, em_vars>>

CacheUpdate ==
    \E new_height \in TipHeights, requested_chunks \in SUBSET ChunkHashes :
        UpdateLargestSeenHeight(new_height, requested_chunks)

\* insert_chunk_header(shard_id, header)
InsertChunkHeader(shard_id, header) ==
    LET key == header.prev_block_hash
        after == insert_chunk_header(block_hash_to_chunk_headers, largest_seen_height,
                                     shard_id, header)
        gone == LruKeys(block_hash_to_chunk_headers) \ LruKeys(after)
    IN  /\ chunk_headers' =
              ChunkHeaders(after,
                  IF after = block_hash_to_chunk_headers \/ key \in displaced
                  THEN MapRemove(accepted_since, gone)
                  ELSE MapPut(MapRemove(accepted_since, gone), key,
                              Append(MapGetOr(accepted_since, key, << >>),
                                     <<shard_id, header>>)),
                  displaced \cup gone,
                  HeadersLast("insert_chunk_header", key, <<shard_id, header>>,
                              after # block_hash_to_chunk_headers, << >>))
        /\ UNCHANGED <<largest_seen_height, encoded_chunks, height_map, first_accepted,
                       cache_last, th_vars, pa_vars, em_vars>>

\* the later block hash the chain presents next: the one after the latest
\* the index holds
NextLaterHash == Max(LruKeys(block_hash_to_chunk_headers) \cup {TrackedHash}) + 1

\* a header for the followed block hash, while its bucket is short of
\* MaxHeaders, or the header of the next later block hash
HeaderInsert ==
    \/ /\ Len(Bucket(block_hash_to_chunk_headers, TrackedHash)) < MaxHeaders
       /\ \E pair \in TrackedPairs : InsertChunkHeader(pair[1], pair[2])
    \/ /\ NextLaterHash \in LaterHashes
       /\ InsertChunkHeader(LaterPair(NextLaterHash)[1], LaterPair(NextLaterHash)[2])

\* get_chunk_headers_for_block(prev_block_hash)
GetChunkHeadersForBlock(prev_block_hash) ==
    LET r == get_chunk_headers_for_block(block_hash_to_chunk_headers, prev_block_hash)
    IN  /\ chunk_headers' =
              ChunkHeaders(r.cache, MapRemove(accepted_since, {prev_block_hash}),
                  displaced \ {prev_block_hash},
                  HeadersLast("get_chunk_headers_for_block", prev_block_hash,
                              << >>, FALSE, r.ret))
        /\ UNCHANGED <<largest_seen_height, encoded_chunks, height_map, first_accepted,
                       cache_last, th_vars, pa_vars, em_vars>>

\* the heights the tip moves to while headers come in: one under
\* NUM_BLOCK_HASH_TO_CHUNK_HEADER and one past it
HeaderTipHeights == {5, 2001}

\* update_largest_seen_height with no chunk requested
HeaderTipMove ==
    \E new_height \in HeaderTipHeights : UpdateLargestSeenHeight(new_height, {})

\* the block hashes asked about: the followed one and the first later one
HeaderConsume ==
    \E prev_block_hash \in {TrackedHash, Min(LaterHashes)} :
        GetChunkHeadersForBlock(prev_block_hash)

-----------------------------------------------------------------------------
(* The validator manager: records, store and read-only queries. *)

\* CryptoHash::default(), the pre-genesis hash; block hashes are 1..MaxBlocks
Sentinel == 0
BlockHashes == 1..MaxBlocks
Hashes == {Sentinel} \cup BlockHashes

\* the u64 a subtraction with the negative difference d wraps to: 2^64 + d
Wrapped(d) == [two_to_64_plus |-> d]

ValidatorIndexInfo(index, prev_hash, epoch_start_hash, proposals, validator_mask) ==
    [index |-> index, prev_hash |-> prev_hash, epoch_start_hash |-> epoch_start_hash,
     proposals |-> proposals, validator_mask |-> validator_mask]

\* the manager's epoch config: config(2, 1, 2, 0, 0.9) of the tests
config == Config(2, 0, 2, <<2>>, <<0>>)

\* a store nothing was written to; last_epoch is the value under LAST_EPOCH_KEY
\* (<< >> while the key is absent)
EmptyStore ==
    [proposals |-> EmptyMap, validators |-> EmptyMap,
     last_epoch_proposals |-> EmptyMap, last_epoch |-> << >>]

\* a StoreUpdate of add_proposals: the COL_PROPOSALS records it will write
EmptyBatch == EmptyMap

\* StoreUpdate::commit of such a batch
CommitBatch(st, batch) == [st EXCEPT !.proposals = batch @@ @]

\* the in-memory part of a ValidatorManager together with its store
Manager(st, le, ev) == [store |-> st, last_epoch |-> le, epoch_validators |-> ev]

\* mutant: with LAST_EPOCH stored, the manager starts with the initial
\* assignment cached under that epoch
ManagerNewCached(initial_epoch_config, initial_validators, st) ==
    Let(proposals_to_assignments(initial_epoch_config, DefaultAssignment,
                                 initial_validators, EmptyMap),
        LAMBDA initial_assigment :
        IF ~initial_assigment.ok THEN initial_assigment
        ELSE IF st.last_epoch # << >>
        THEN Ok(Manager(st, st.last_epoch[1],
                        MapPut(EmptyMap, st.last_epoch[1], initial_assigment.value)))
        ELSE Ok(Manager(
                [st EXCEPT
                   !.proposals = MapPut(@, Sentinel,
                       ValidatorIndexInfo(0, Sentinel, Sentinel, << >>, << >>)),
                   !.validators = MapPut(@, Sentinel, initial_assigment.value)],
                Sentinel,
                MapPut(EmptyMap, Sentinel, initial_assigment.value))))

\* ValidatorManager::new
ManagerNew(initial_epoch_config, initial_validators, st) ==
    IF st.last_epoch # << >>
    THEN Ok(Manager(st, st.last_epoch[1], EmptyMap))
    ELSE Let(proposals_to_assignments(initial_epoch_config, DefaultAssignment,
                                      initial_validators, EmptyMap),
             LAMBDA initial_assigment :
             IF ~initial_assigment.ok THEN initial_assigment
             ELSE Ok(Manager(
                     [st EXCEPT
                        !.proposals = MapPut(@, Sentinel,
                            ValidatorIndexInfo(0, Sentinel, Sentinel, << >>, << >>)),
                        !.validators = MapPut(@, Sentinel, initial_assigment.value)],
                     Sentinel,
                     MapPut(EmptyMap, Sentinel, initial_assigment.value))))

\* mutant: a missing record is reported as an epoch out of bounds
GetIndexInfoOutOfBounds(st, hash) ==
    IF hash \in DOMAIN st.proposals
    THEN Ok(st.proposals[hash])
    ELSE Err(EpochOutOfBounds)

get_index_info(st, hash) ==
    IF hash \in DOMAIN st.proposals
    THEN Ok(st.proposals[hash])
    ELSE Err(MissingBlock(hash))

\* lines 411-417 and 448-453: the record of the parent's epoch-start block
EpochStartInfo(st, parent_hash, parent_info) ==
    IF parent_hash = parent_info.epoch_start_hash
    THEN Ok(parent_info)
    ELSE get_index_info(st, parent_info.epoch_start_hash)

\* line 430: `index - epoch_start_index` on u64 panics in a build with
\* overflow checks and wraps in one without; both outcomes
OffsetOutcomes(index, epoch_start_index) ==
    IF index = 0 THEN {Ok(0)}
    ELSE IF index >= epoch_start_index THEN {Ok(index - epoch_start_index)}
    ELSE {Panic("attempt to subtract with overflow"),
          Ok(Wrapped(index - epoch_start_index))}

\* the set of results a call can produce (one, unless the subtraction underflows)
get_epoch_offset(st, parent_hash, index) ==
    IF parent_hash = Sentinel THEN {Ok(<<parent_hash, 0>>)}
    ELSE
    LET parent_info == get_index_info(st, parent_hash)
    IN  IF ~parent_info.ok THEN {Err(MissingBlock(parent_hash))}
        ELSE
        LET epoch_start_info == EpochStartInfo(st, parent_hash, parent_info.value)
        IN  IF ~epoch_start_info.ok THEN {epoch_start_info}
            ELSE IF epoch_start_info.value.index + config.epoch_length
                        <= parent_info.value.index
            THEN {Ok(<<parent_info.value.epoch_start_hash, 0>>)}
            ELSE
            LET prev_epoch_info == get_index_info(st, epoch_start_info.value.prev_hash)
            IN  IF ~prev_epoch_info.ok THEN {prev_epoch_info}
                ELSE {IF o.ok THEN Ok(<<prev_epoch_info.value.epoch_start_hash, o.value>>)
                              ELSE o :
                         o \in OffsetOutcomes(index, epoch_start_info.value.index)}

\* line 447: the error an unknown parent_hash is mapped to
NextEpochMissingParent(parent_hash) == EpochOutOfBounds

get_next_epoch_hash(st, parent_hash) ==
    IF parent_hash = Sentinel THEN Panic("assert false")
    ELSE
    LET parent_info == get_index_info(st, parent_hash)
    IN  IF ~parent_info.ok THEN Err(NextEpochMissingParent(parent_hash))
        ELSE
        LET epoch_start_info == EpochStartInfo(st, parent_hash, parent_info.value)
        IN  IF ~epoch_start_info.ok THEN epoch_start_info
            ELSE IF epoch_start_info.value.index + config.epoch_length
                        <= parent_info.value.index
            THEN Err(Other("Requesting the validators for the next epoch on the first block of an epoch"))
            ELSE Ok(parent_info.value.epoch_start_hash)

\* mutant: the previous epoch is taken to be the epoch finalized last
GetPrevEpochHashLast(st, epoch_hash) ==
    IF st.last_epoch = << >> THEN Ok(Sentinel) ELSE Ok(st.last_epoch[1])


get_prev_epoch_hash(st, epoch_hash) ==
    LET info == get_index_info(st, epoch_hash)
    IN  IF ~info.ok THEN info
        ELSE LET parent == get_index_info(st, info.value.prev_hash)
             IN  IF ~parent.ok THEN parent ELSE Ok(parent.value.epoch_start_hash)

\* mutant: the store is not consulted
GetValidatorsCacheOnly(st, ev, epoch_hash) ==
    IF epoch_hash \in DOMAIN ev
    THEN [result |-> Ok(ev[epoch_hash]), epoch_validators |-> ev]
    ELSE [result |-> Err(EpochOutOfBounds), epoch_validators |-> ev]

\* get_validators: the result and the cache after the call
get_validators(st, ev, epoch_hash) ==
    IF epoch_hash \in DOMAIN ev
    THEN [result |-> Ok(ev[epoch_hash]), epoch_validators |-> ev]
    ELSE IF epoch_hash \in DOMAIN st.validators
    THEN [result |-> Ok(st.validators[epoch_hash]),
          epoch_validators |-> MapPut(ev, epoch_hash, st.validators[epoch_hash])]
    ELSE [result |-> Err(EpochOutOfBounds), epoch_validators |-> ev]

\* mutant: the seats are counted from the height before the epoch's start
ProducerAtOffByOne(validator_assignment, seats, height) ==
    IF height < validator_assignment.expected_epoch_start
    THEN Err(EpochOutOfBounds)
    ELSE Ok(validator_assignment.validators[
                seats[((height - validator_assignment.expected_epoch_start + 1)
                          % Len(seats)) + 1] + 1])

\* lines 668-677 and 685-693, after the assignment was found: the producer
\* at the height among the seats
ProducerAt(validator_assignment, seats, height) ==
    IF height < validator_assignment.expected_epoch_start
    THEN Err(EpochOutOfBounds)
    ELSE IF Len(seats) = 0
    THEN Panic("remainder with a divisor of zero")
    ELSE Let(seats[((height - validator_assignment.expected_epoch_start) % Len(seats)) + 1],
             LAMBDA validator_idx :
             IF validator_idx >= Len(validator_assignment.validators)
             THEN Panic("index out of bounds")
             ELSE Ok(validator_assignment.validators[validator_idx + 1]))

\* get_block_proposer_info: the result and the cache after the call
get_block_proposer_info(st, ev, epoch_hash, height) ==
    Let(get_validators(st, ev, epoch_hash), LAMBDA gv :
        [result |-> IF ~gv.result.ok THEN gv.result
                    ELSE ProducerAt(gv.result.value, gv.result.value.block_producers,
                                    height),
         epoch_validators |-> gv.epoch_validators])

\* get_chunk_proposer_info: the result and the cache after the call
get_chunk_proposer_info(st, ev, epoch_hash, height, shard_id) ==
    Let(get_validators(st, ev, epoch_hash), LAMBDA gv :
        [result |-> IF ~gv.result.ok THEN gv.result
                    ELSE IF height < gv.result.value.expected_epoch_start
                    THEN Err(EpochOutOfBounds)
                    ELSE IF shard_id >= Len(gv.result.value.chunk_producers)
                    THEN Panic("index out of bounds")
                    ELSE ProducerAt(gv.result.value,
                                    gv.result.value.chunk_producers[shard_id + 1], height),
         epoch_validators |-> gv.epoch_validators])

-----------------------------------------------------------------------------
(* finalize_epoch and add_proposals. *)

\* get_epoch_block_proposer_info (lines 235-250)
get_epoch_block_proposer_info(validator_assignment, epoch_length, epoch_start_index) ==
    Let(Table([i \in epoch_start_index .. (epoch_start_index + epoch_length - 1) |->
                  validator_assignment.block_producers[
                      ((i - epoch_start_index)
                          % Len(validator_assignment.block_producers)) + 1]]),
        LAMBDA block_index_to_validator :
        [block_index_to_validator |-> block_index_to_validator,
         validator_to_num_blocks |->
            Table([v \in {block_index_to_validator[i] : i \in DOMAIN block_index_to_validator}
                     |-> Cardinality({i \in DOMAIN block_index_to_validator :
                                         block_index_to_validator[i] = v})])])

RECURSIVE KickoutsOf(_, _, _)
\* lines 535-538 for one block: a proposal of amount 0 marks its account
KickoutsOf(proposals, i, validator_kickout) ==
    IF i > Len(proposals) THEN validator_kickout
    ELSE KickoutsOf(proposals, i + 1,
             IF proposals[i].amount = 0
             THEN MapPut(validator_kickout, proposals[i].account_id, TRUE)
             ELSE validator_kickout)

\* lines 535-544 for one block: proposals, validator_kickout and
\* validator_tracker after it
WalkBlock(info, validator, acc) ==
    [proposals |-> acc.proposals \o info.proposals,
     validator_kickout |-> KickoutsOf(info.proposals, 1, acc.validator_kickout),
     validator_tracker |->
         MapPut(acc.validator_tracker, validator,
                MapGetOr(acc.validator_tracker, validator, 0) + 1)]

RECURSIVE WalkEpoch(_, _, _, _, _)
\* the loop of lines 530-545 from `hash` on
WalkEpoch(st, epoch_hash, hash, block_index_to_validator, acc) ==
    Let(get_index_info(st, hash), LAMBDA info :
        IF ~info.ok THEN info
        ELSE IF info.value.epoch_start_hash # epoch_hash \/ info.value.prev_hash = hash
        THEN Ok(acc)
        ELSE IF info.value.index \notin DOMAIN block_index_to_validator
        THEN Panic("unwrap on None")
        ELSE Let(WalkBlock(info.value, block_index_to_validator[info.value.index], acc),
                 LAMBDA next :
                 WalkEpoch(st, epoch_hash, info.value.prev_hash, block_index_to_validator,
                           next)))

\* ratios are fractions <<numerator, denominator>>; the f64 comparisons of
\* lines 566 and 576 are exact for the small counts that occur
RatioLess(a, b) == a[1] * b[2] < b[1] * a[2]

\* mutant: a validator that reaches the threshold is marked as staying
\* whatever was marked before
KickoutStepOverriding(i, ratio, account_id, s) ==
    LET below == RatioLess(ratio, config.validator_kickout_threshold)
        larger == RatioLess(s.maximum_block_prod_ratio, ratio)
    IN  [validator_kickout |-> MapPut(s.validator_kickout, account_id, below),
         all_kicked_out |-> s.all_kicked_out /\ below,
         maximum_block_prod_ratio |->
             IF larger THEN ratio ELSE s.maximum_block_prod_ratio,
         max_account_id |-> IF larger THEN <<i>> ELSE s.max_account_id]

\* lines 563-579 for the tracked validator i; s holds validator_kickout,
\* all_kicked_out, maximum_block_prod_ratio, max_account_id
KickoutStep(i, ratio, account_id, s) ==
    LET below == RatioLess(ratio, config.validator_kickout_threshold)
        fresh == account_id \notin DOMAIN s.validator_kickout
        cur_ratio == IF below \/ fresh THEN ratio ELSE <<0, 1>>
        larger == RatioLess(s.maximum_block_prod_ratio, cur_ratio)
    IN  [validator_kickout |->
             IF below THEN MapPut(s.validator_kickout, account_id, TRUE)
             ELSE IF fresh THEN MapPut(s.validator_kickout, account_id, FALSE)
             ELSE s.validator_kickout,
         all_kicked_out |-> s.all_kicked_out /\ ~(~below /\ fresh),
         maximum_block_prod_ratio |->
             IF larger THEN cur_ratio ELSE s.maximum_block_prod_ratio,
         max_account_id |-> IF larger THEN <<i>> ELSE s.max_account_id]

RECURSIVE KickoutLoop(_, _, _, _, _, _)
\* lines 562-580, visiting the tracked validators in the given order
KickoutLoop(order, k, validator_tracker, validator_to_num_blocks, validators, s) ==
    IF k > Len(order) THEN s
    ELSE Let(KickoutStep(order[k],
                         <<validator_tracker[order[k]], validator_to_num_blocks[order[k]]>>,
                         validators[order[k] + 1].account_id, s),
             LAMBDA next :
             KickoutLoop(order, k + 1, validator_tracker, validator_to_num_blocks,
                         validators, next))

\* the orders a HashMap can hand out the keys of validator_tracker in
IterationOrders(keys) ==
    {o \in [1..Cardinality(keys) -> keys] : \A a, b \in DOMAIN o : a # b => o[a] # o[b]}

\* lines 556-587 for one iteration order: the final validator_kickout
KickoutMap(order, walked, validator_to_num_blocks, validator_assignment) ==
    Let(KickoutLoop(order, 1, walked.validator_tracker, validator_to_num_blocks,
                    validator_assignment.validators,
                    [validator_kickout |-> walked.validator_kickout,
                     all_kicked_out |-> TRUE,
                     maximum_block_prod_ratio |-> <<0, 1>>,
                     max_account_id |-> << >>]),
        LAMBDA s :
        IF s.all_kicked_out /\ s.max_account_id # << >>
        THEN MapPut(s.validator_kickout,
                    validator_assignment.validators[s.max_account_id[1] + 1].account_id,
                    FALSE)
        ELSE s.validator_kickout)

\* what a call leaves behind: its result and the manager after it
Outcome(result, m) == [result |-> result, manager |-> m]

\* mutant: last_epoch is set before the assignment is computed
StoreEpochEarly(m, validator_assignment, epoch_hash, new_hash, cur_proposals, validator_kickout) ==
    Let(proposals_to_assignments(config, validator_assignment,
            MapGetOr(m.store.last_epoch_proposals, epoch_hash, << >>) \o cur_proposals,
            validator_kickout),
        LAMBDA assignment :
        IF ~assignment.ok THEN Outcome(assignment, [m EXCEPT !.last_epoch = new_hash])
        ELSE Outcome(Ok(TRUE),
                 Manager([m.store EXCEPT
                            !.validators = MapPut(@, new_hash, assignment.value),
                            !.last_epoch = <<epoch_hash>>,
                            !.last_epoch_proposals = MapPut(@, new_hash, cur_proposals)],
                         new_hash,
                         MapPut(m.epoch_validators, new_hash, assignment.value))))

\* mutant: the assignment is stored under the hash of the epoch that ended
StoreEpochUnderEpoch(m, validator_assignment, epoch_hash, new_hash, cur_proposals, validator_kickout) ==
    Let(proposals_to_assignments(config, validator_assignment,
            MapGetOr(m.store.last_epoch_proposals, epoch_hash, << >>) \o cur_proposals,
            validator_kickout),
        LAMBDA assignment :
        IF ~assignment.ok THEN Outcome(assignment, m)
        ELSE Outcome(Ok(TRUE),
                 Manager([m.store EXCEPT
                            !.validators = MapPut(@, epoch_hash, assignment.value),
                            !.last_epoch = <<epoch_hash>>,
                            !.last_epoch_proposals = MapPut(@, new_hash, cur_proposals)],
                         new_hash,
                         MapPut(m.epoch_validators, epoch_hash, assignment.value))))

\* lines 589-601: the new assignment is computed and stored, and the
\* StoreUpdate of finalize_epoch is committed
StoreEpoch(m, validator_assignment, epoch_hash, new_hash, cur_proposals, validator_kickout) ==
    Let(proposals_to_assignments(config, validator_assignment,
            MapGetOr(m.store.last_epoch_proposals, epoch_hash, << >>) \o cur_proposals,
            validator_kickout),
        LAMBDA assignment :
        IF ~assignment.ok THEN Outcome(assignment, m)
        ELSE Outcome(Ok(TRUE),
                 Manager([m.store EXCEPT
                            !.validators = MapPut(@, new_hash, assignment.value),
                            !.last_epoch = <<epoch_hash>>,
                            !.last_epoch_proposals = MapPut(@, new_hash, cur_proposals)],
                         new_hash,
                         MapPut(m.epoch_validators, new_hash, assignment.value))))

\* lines 521-601, for the assignment of the previous epoch
FinalizeWith(m, validator_assignment, epoch_hash, last_hash, new_hash) ==
    IF Len(validator_assignment.block_producers) = 0
    THEN {Outcome(Panic("remainder with a divisor of zero"), m)}
    ELSE
    UNION {UNION {
        IF ~walked.ok THEN {Outcome(walked, m)}
        ELSE {StoreEpoch(m, validator_assignment, epoch_hash, new_hash,
                         walked.value.proposals,
                         KickoutMap(order, walked.value, info.validator_to_num_blocks,
                                    validator_assignment)) :
                 order \in IterationOrders(DOMAIN walked.value.validator_tracker)} :
        walked \in {WalkEpoch(m.store, epoch_hash, last_hash, info.block_index_to_validator,
                              [proposals |-> << >>, validator_kickout |-> EmptyMap,
                               validator_tracker |-> EmptyMap])}} :
        info \in {get_epoch_block_proposer_info(validator_assignment, config.epoch_length,
                                                validator_assignment.expected_epoch_start)}}

\* finalize_epoch: the set of outcomes (one per distinct effect of the
\* iteration order of validator_tracker)
finalize_epoch(m, epoch_hash, last_hash, new_hash) ==
    UNION {
        IF ~prev_epoch_hash.ok THEN {Outcome(prev_epoch_hash, m)}
        ELSE UNION {
            IF ~gv.result.ok
            THEN {Outcome(gv.result, [m EXCEPT !.epoch_validators = gv.epoch_validators])}
            ELSE FinalizeWith([m EXCEPT !.epoch_validators = gv.epoch_validators],
                              gv.result.value, epoch_hash, last_hash, new_hash) :
            gv \in {get_validators(m.store, m.epoch_validators, prev_epoch_hash.value)}} :
        prev_epoch_hash \in {get_prev_epoch_hash(m.store, epoch_hash)}}

\* mutant: the pre-genesis assignment is copied as it is
GenesisBranchPlain(m, current_hash) ==
    Let(get_validators(m.store, m.epoch_validators, Sentinel), LAMBDA gv :
        IF ~gv.result.ok
        THEN Outcome(gv.result, [m EXCEPT !.epoch_validators = gv.epoch_validators])
        ELSE Outcome(Ok(current_hash),
                 [m EXCEPT
                    !.epoch_validators = gv.epoch_validators,
                    !.store.validators = MapPut(@, current_hash, gv.result.value),
                    !.store.last_epoch_proposals = MapPut(@, current_hash, << >>)]))

\* lines 617-630: the genesis branch; it commits a StoreUpdate of its own
GenesisBranch(m, current_hash) ==
    Let(get_validators(m.store, m.epoch_validators, Sentinel), LAMBDA gv :
        IF ~gv.result.ok
        THEN Outcome(gv.result, [m EXCEPT !.epoch_validators = gv.epoch_validators])
        ELSE Outcome(Ok(current_hash),
                 [m EXCEPT
                    !.epoch_validators = gv.epoch_validators,
                    !.store.validators = MapPut(@, current_hash,
                        [gv.result.value EXCEPT
                            !.expected_epoch_start = config.epoch_length]),
                    !.store.last_epoch_proposals = MapPut(@, current_hash, << >>)]))

\* mutant: the epoch is finalized whether or not the block has an assignment
NextEpochBranchAgain(m, parent_info, prev_hash, current_hash) ==
    {IF o.result.ok THEN Outcome(Ok(current_hash), o.manager) ELSE o :
        o \in finalize_epoch(m, parent_info.epoch_start_hash, prev_hash, current_hash)}

\* mutant: the first block of the next epoch is given the epoch of its parent
NextEpochBranchParent(m, parent_info, prev_hash, current_hash) ==
    UNION {
        IF gv.result.ok
        THEN {Outcome(Ok(parent_info.epoch_start_hash),
                      [m EXCEPT !.epoch_validators = gv.epoch_validators])}
        ELSE {IF o.result.ok THEN Outcome(Ok(parent_info.epoch_start_hash), o.manager)
                             ELSE o :
                 o \in finalize_epoch(m, parent_info.epoch_start_hash, prev_hash,
                                      current_hash)} :
        gv \in {get_validators(m.store, m.epoch_validators, current_hash)}}

\* lines 636-643: the first block of the next epoch
NextEpochBranch(m, parent_info, prev_hash, current_hash) ==
    UNION {
        IF gv.result.ok
        THEN {Outcome(Ok(current_hash), [m EXCEPT !.epoch_validators = gv.epoch_validators])}
        ELSE {IF o.result.ok THEN Outcome(Ok(current_hash), o.manager) ELSE o :
                 o \in finalize_epoch(m, parent_info.epoch_start_hash, prev_hash,
                                      current_hash)} :
        gv \in {get_validators(m.store, m.epoch_validators, current_hash)}}

\* mutant: an epoch begins only past the index that ends the last
EpochStartBranchStrict(m, parent_info, prev_hash, current_hash, index) ==
    UNION {
        IF ~epoch_start_info.ok THEN {Outcome(epoch_start_info, m)}
        ELSE IF epoch_start_info.value.index + config.epoch_length < index
        THEN NextEpochBranch(m, parent_info, prev_hash, current_hash)
        ELSE {Outcome(Ok(parent_info.epoch_start_hash), m)} :
        epoch_start_info \in {get_index_info(m.store, parent_info.epoch_start_hash)}}

\* lines 632-647: the epoch_start_hash of a block with a stored parent, and
\* the manager after finalize_epoch, where it ran
EpochStartBranch(m, parent_info, prev_hash, current_hash, index) ==
    UNION {
        IF ~epoch_start_info.ok THEN {Outcome(epoch_start_info, m)}
        ELSE IF epoch_start_info.value.index + config.epoch_length <= index
        THEN NextEpochBranch(m, parent_info, prev_hash, current_hash)
        ELSE {Outcome(Ok(parent_info.epoch_start_hash), m)} :
        epoch_start_info \in {get_index_info(m.store, parent_info.epoch_start_hash)}}

\* mutant: a stored record is not noticed
AlreadyStoredNever(st, current_hash) == FALSE

\* line 614
AlreadyStored(st, current_hash) == current_hash \in DOMAIN st.proposals

\* lines 650-657: the record goes into the StoreUpdate that is returned
WithRecord(o, prev_hash, current_hash, index, proposals, validator_mask) ==
    IF ~o.result.ok THEN o
    ELSE Outcome(Ok(MapPut(EmptyBatch, current_hash,
                        ValidatorIndexInfo(index, prev_hash, o.result.value,
                                           proposals, validator_mask))),
                 o.manager)

\* add_proposals: the set of outcomes; the result of a successful call is the
\* StoreUpdate it returns
add_proposals(m, prev_hash, current_hash, index, proposals, validator_mask) ==
    IF AlreadyStored(m.store, current_hash)
    THEN {Outcome(Ok(EmptyBatch), m)}
    ELSE UNION {
        IF ~parent_info.ok THEN {Outcome(parent_info, m)}
        ELSE {WithRecord(o, prev_hash, current_hash, index, proposals, validator_mask) :
                 o \in IF prev_hash = Sentinel
                       THEN {GenesisBranch(m, current_hash)}
                       ELSE EpochStartBranch(m, parent_info.value, prev_hash,
                                             current_hash, index)} :
        parent_info \in {get_index_info(m.store, prev_hash)}}

-----------------------------------------------------------------------------
(* The validator manager as a process: one step per call, one step in which
   the caller takes the result (and commits or drops a returned batch). *)

NoCall == [op |-> "none"]

Call(op, args, result, before) ==
    [op |-> op, args |-> args, result |-> result, before |-> before]

\* the manager as the variables hold it
Me == Manager(store, last_epoch, epoch_validators)

\* the validators the chain starts with
InitialValidators == {<<Stake(1, 2), Stake(2, 2)>>}

\* the proposals a block carries: none, or an unstake and a new stake
BlockProposalLists == {<< >>, <<Stake(2, 0), Stake(3, 2)>>}

\* no manager has been created (the other specifications)
ManagerIdle ==
    /\ store = EmptyStore
    /\ last_epoch = Sentinel
    /\ epoch_validators = EmptyMap
    /\ pending = EmptyBatch
    /\ em_last = NoCall
    /\ dropped = 0

\* ValidatorManager::new on an empty store
ManagerInit ==
    /\ \E initial_validators \in InitialValidators :
          \E m \in {ManagerNew(config, initial_validators, EmptyStore)} :
              /\ m.ok
              /\ store = m.value.store
              /\ last_epoch = m.value.last_epoch
              /\ epoch_validators = m.value.epoch_validators
    /\ pending = EmptyBatch
    /\ em_last = NoCall
    /\ dropped = 0

AddProposals(prev_hash, current_hash, index, proposals, validator_mask) ==
    /\ em_last = NoCall
    /\ \E o \in add_proposals(Me, prev_hash, current_hash, index, proposals, validator_mask) :
          /\ store' = o.manager.store
          /\ last_epoch' = o.manager.last_epoch
          /\ epoch_validators' = o.manager.epoch_validators
          /\ pending' = IF o.result.ok THEN o.result.value ELSE EmptyBatch
          /\ em_last' = Call("add_proposals",
                             <<prev_hash, current_hash, index, proposals, validator_mask>>,
                             o.result, Me)
    /\ UNCHANGED <<dropped, th_vars, pa_vars, cache_vars>>

\* the indices the chain gives a block under the parent: 0 or 1 for a genesis
\* block, past the parent's index (skipping at most MaxSkip) otherwise
ChildIndices(prev_hash) ==
    IF prev_hash = Sentinel THEN {0, 1}
    ELSE IF prev_hash \in DOMAIN store.proposals
    THEN LET i == store.proposals[prev_hash].index IN (i + 1)..(i + 1 + MaxSkip)
    ELSE {1}

\* the indices get_epoch_offset is asked about
CallIndices == 0..(MaxBlocks + MaxSkip)

\* a block not seen before (hashes are handed out in order), under any parent
AddBlock ==
    /\ BlockHashes \ DOMAIN store.proposals # {}
    /\ \E prev_hash \in Hashes, proposals \in BlockProposalLists :
          \E index \in ChildIndices(prev_hash) :
              AddProposals(prev_hash, Min(BlockHashes \ DOMAIN store.proposals), index,
                           proposals, << >>)

\* a block not seen before at the height after its parent's (0 for a genesis
\* block), under any parent
AddChild ==
    /\ BlockHashes \ DOMAIN store.proposals # {}
    /\ \E prev_hash \in Hashes, proposals \in BlockProposalLists :
          AddProposals(prev_hash, Min(BlockHashes \ DOMAIN store.proposals),
                       Min(ChildIndices(prev_hash)), proposals, << >>)

\* the proposals a block of the chain without forks carries: none, or
\* validator 2 staking anew, or validator 2 unstaking
StakeProposalLists == {<< >>, <<Stake(2, 2)>>, <<Stake(2, 0)>>}

\* the latest block stored (hashes are handed out in order)
Tip == CHOOSE h \in DOMAIN store.proposals : \A g \in DOMAIN store.proposals : g <= h

\* a block on top of the latest block: a chain without forks
AddTip ==
    /\ Tip < MaxChain
    /\ \E proposals \in StakeProposalLists, index \in ChildIndices(Tip) :
          AddProposals(Tip, Tip + 1, index, proposals, << >>)

\* a tree of blocks in which the hash names the block: block 1 is a genesis
\* block, blocks 2h and 2h + 1 are the children of block h, each the first
\* block of the epoch after its parent's, and the even blocks carry an unstake
\* and a new stake
BlockParent(h) == IF h = 1 THEN Sentinel ELSE h \div 2

RECURSIVE BlockIndex(_)
BlockIndex(h) ==
    IF h = 1 THEN 0 ELSE BlockIndex(h \div 2) + config.epoch_length + (h % 2)

BlockProposals(h) == IF h % 2 = 0 THEN <<Stake(2, 0), Stake(3, 2)>> ELSE << >>

\* a block of the tree is handed to add_proposals: for the first time, again
\* after its batch was dropped, or again after it was stored
PresentBlock ==
    \E h \in BlockHashes :
        AddProposals(BlockParent(h), h, BlockIndex(h), BlockProposals(h), << >>)

\* the proposals a block carries when account 3, no validator at the start,
\* stakes: none, a stake of 1, or a stake of 2
NewStakeProposalLists == {<< >>, <<Stake(3, 1)>>, <<Stake(3, 2)>>}

\* a block with such proposals on top of the latest block
AddStakeTip ==
    /\ Tip < MaxChain
    /\ \E proposals \in NewStakeProposalLists, index \in ChildIndices(Tip) :
          AddProposals(Tip, Tip + 1, index, proposals, << >>)

\* a call for a hash that has a record, under any parent and with an index,
\* proposals and a mask no block was stored with
ReplayBlock ==
    \E current_hash \in DOMAIN store.proposals, prev_hash \in Hashes :
        AddProposals(prev_hash, current_hash, MaxBlocks * (MaxSkip + 1) + 1,
                     <<Stake(1, 1)>>, <<TRUE>>)

\* the caller commits the StoreUpdate add_proposals returned
CommitPending ==
    /\ em_last # NoCall
    /\ em_last.op = "add_proposals"
    /\ em_last.result.ok
    /\ store' = CommitBatch(store, pending)
    /\ pending' = EmptyBatch
    /\ em_last' = NoCall
    /\ UNCHANGED <<last_epoch, epoch_validators, dropped, th_vars, pa_vars, cache_vars>>

\* the caller drops it
DropPending ==
    /\ em_last # NoCall
    /\ em_last.op = "add_proposals"
    /\ em_last.result.ok
    /\ dropped < MaxDrops
    /\ dropped' = dropped + 1
    /\ pending' = EmptyBatch
    /\ em_last' = NoCall
    /\ UNCHANGED <<store, last_epoch, epoch_validators, th_vars, pa_vars, cache_vars>>

\* the caller takes any other result
Return ==
    /\ em_last # NoCall
    /\ ~(em_last.op = "add_proposals" /\ em_last.result.ok)
    /\ em_last' = NoCall
    /\ UNCHANGED <<store, last_epoch, epoch_validators, pending, dropped, th_vars,
                   pa_vars, cache_vars>>

GetValidators(epoch_hash) ==
    /\ em_last = NoCall
    /\ \E gv \in {get_validators(store, epoch_validators, epoch_hash)} :
           /\ epoch_validators' = gv.epoch_validators
           /\ em_last' = Call("get_validators", <<epoch_hash>>, gv.result, Me)
    /\ UNCHANGED <<store, last_epoch, pending, dropped, th_vars, pa_vars, cache_vars>>

GetEpochOffset(parent_hash, index) ==
    /\ em_last = NoCall
    /\ \E r \in get_epoch_offset(store, parent_hash, index) :
          em_last' = Call("get_epoch_offset", <<parent_hash, index>>, r, Me)
    /\ UNCHANGED <<store, last_epoch, epoch_validators, pending, dropped, th_vars,
                   pa_vars, cache_vars>>

GetNextEpochHash(parent_hash) ==
    /\ em_last = NoCall
    /\ em_last' = Call("get_next_epoch_hash", <<parent_hash>>,
                       get_next_epoch_hash(store, parent_hash), Me)
    /\ UNCHANGED <<store, last_epoch, epoch_validators, pending, dropped, th_vars,
                   pa_vars, cache_vars>>

GetPrevEpochHash(epoch_hash) ==
    /\ em_last = NoCall
    /\ em_last' = Call("get_prev_epoch_hash", <<epoch_hash>>,
                       get_prev_epoch_hash(store, epoch_hash), Me)
    /\ UNCHANGED <<store, last_epoch, epoch_validators, pending, dropped, th_vars,
                   pa_vars, cache_vars>>

\* finalize_epoch called by the caller itself, as the tests do before
\* add_proposals
FinalizeEpoch(epoch_hash, last_hash, new_hash) ==
    /\ em_last = NoCall
    /\ \E o \in finalize_epoch(Me, epoch_hash, last_hash, new_hash) :
          /\ store' = o.manager.store
          /\ last_epoch' = o.manager.last_epoch
          /\ epoch_validators' = o.manager.epoch_validators
          /\ em_last' = Call("finalize_epoch", <<epoch_hash, last_hash, new_hash>>,
                             o.result, Me)
    /\ UNCHANGED <<pending, dropped, th_vars, pa_vars, cache_vars>>

\* the call the tests make before add_proposals: the epoch of a stored block
\* is finalized up to that block, for the block that comes next
FinalizeAhead ==
    /\ BlockHashes \ DOMAIN store.proposals # {}
    /\ \E last_hash \in DOMAIN store.proposals \ {Sentinel} :
          FinalizeEpoch(store.proposals[last_hash].epoch_start_hash, last_hash,
                        Min(BlockHashes \ DOMAIN store.proposals))

\* finalize_epoch called by the caller for the block that comes after the
\* latest: for the epoch of the latest block up to that block, as the tests
\* call it, or with a hash the store lacks in place of either
FinalizeTip ==
    /\ Tip < MaxChain
    /\ \E epoch_hash \in {store.proposals[Tip].epoch_start_hash, Tip + 1},
          last_hash \in {Tip, Tip + 1} :
          FinalizeEpoch(epoch_hash, last_hash, Tip + 1)

\* add_proposals called for a block whose parent the store lacks
AddOrphan ==
    /\ Tip < MaxChain
    /\ AddProposals(Tip + 2, Tip + 1, 1, << >>, << >>)

\* the process starts again: a new manager is created on the store as it is,
\* with the config and the initial validators of the first, and takes its place
Restart ==
    /\ em_last = NoCall
    /\ \E initial_validators \in InitialValidators :
          \E m \in {ManagerNew(config, initial_validators, store)} :
              /\ m.ok
              /\ store' = m.value.store
              /\ last_epoch' = m.value.last_epoch
              /\ epoch_validators' = m.value.epoch_validators
              /\ em_last' = Call("new", <<initial_validators>>, Ok(TRUE), Me)
    /\ UNCHANGED <<pending, dropped, th_vars, pa_vars, cache_vars>>

\* the shards get_chunk_proposer_info is asked about: the shard of config and
\* one past it
QueryShards == {0, 1}

GetBlockProposerInfo(epoch_hash, height) ==
    /\ em_last = NoCall
    /\ \E r \in {get_block_proposer_info(store, epoch_validators, epoch_hash, height)} :
           /\ epoch_validators' = r.epoch_validators
           /\ em_last' = Call("get_block_proposer_info", <<epoch_hash, height>>,
                              r.result, Me)
    /\ UNCHANGED <<store, last_epoch, pending, dropped, th_vars, pa_vars, cache_vars>>

GetChunkProposerInfo(epoch_hash, height, shard_id) ==
    /\ em_last = NoCall
    /\ \E r \in {get_chunk_proposer_info(store, epoch_validators, epoch_hash, height,
                                           shard_id)} :
           /\ epoch_validators' = r.epoch_validators
           /\ em_last' = Call("get_chunk_proposer_info", <<epoch_hash, height, shard_id>>,
                              r.result, Me)
    /\ UNCHANGED <<store, last_epoch, pending, dropped, th_vars, pa_vars, cache_vars>>

\* the queries that read assignments (and fill the manager's cache of them)
Lookups ==
    \/ \E epoch_hash \in Hashes : GetValidators(epoch_hash)
    \/ \E epoch_hash \in Hashes, height \in CallIndices :
          GetBlockProposerInfo(epoch_hash, height)
    \/ \E epoch_hash \in Hashes, height \in CallIndices, shard_id \in QueryShards :
          GetChunkProposerInfo(epoch_hash, height, shard_id)

Queries ==
    \/ \E parent_hash \in Hashes, index \in CallIndices : GetEpochOffset(parent_hash, index)
    \/ \E parent_hash \in Hashes : GetNextEpochHash(parent_hash)
    \/ \E epoch_hash \in Hashes : GetPrevEpochHash(epoch_hash)

-----------------------------------------------------------------------------
(* Specifications. *)

InitThreshold == ThresholdCall /\ AssignIdle /\ CacheNew /\ ManagerIdle
NextThreshold == ThresholdEnter \/ ThresholdPass
SpecThreshold == InitThreshold /\ [][NextThreshold]_vars

InitAssign == ThresholdIdle /\ AssignCall /\ CacheNew /\ ManagerIdle
NextAssign == ProposalsToAssignments
SpecAssign == InitAssign /\ [][NextAssign]_vars

InitFilter == ThresholdIdle /\ FilterCall /\ CacheNew /\ ManagerIdle
SpecFilter == InitFilter /\ [][NextAssign]_vars

InitRing == ThresholdIdle /\ RingCall /\ CacheNew /\ ManagerIdle
SpecRing == InitRing /\ [][NextAssign]_vars

InitSeats == ThresholdIdle /\ SeatsCall /\ CacheNew /\ ManagerIdle
SpecSeats == InitSeats /\ [][NextAssign]_vars

InitCache == ThresholdIdle /\ AssignIdle /\ CacheNew /\ ManagerIdle
NextCache ==
    \/ CacheInsert
    \/ CacheRemove
    \/ CacheMerge
    \/ RemoveFromCacheIfOutsideHorizon
    \/ CacheUpdate
SpecCache == InitCache /\ [][NextCache]_vars

\* the index of chunk headers under a tip that moves
NextHeaders ==
    \/ HeaderInsert
    \/ HeaderConsume
    \/ HeaderTipMove
SpecHeaders == InitCache /\ [][NextHeaders]_vars

\* the manager and a caller that commits or drops what add_proposals returns
Init == ThresholdIdle /\ AssignIdle /\ CacheNew /\ ManagerInit
Next ==
    \/ AddBlock
    \/ CommitPending
    \/ DropPending
    \/ Return
Spec == Init /\ [][Next]_vars

\* the manager and a caller that commits every batch, replays blocks and
\* asks for epochs
NextCalls ==
    \/ AddBlock
    \/ CommitPending
    \/ Return
    \/ ReplayBlock
    \/ Queries
SpecCalls == Init /\ [][NextCalls]_vars

\* the manager and a caller that adds blocks without skipping a height,
\* commits every batch and looks assignments and producers up
NextLookups ==
    \/ AddChild
    \/ CommitPending
    \/ Return
    \/ Lookups
SpecLookups == Init /\ [][NextLookups]_vars

\* the manager and a caller that builds one chain, committing every batch
NextChain ==
    \/ AddTip
    \/ CommitPending
    \/ Return
SpecChain == Init /\ [][NextChain]_vars

\* the manager and a caller that adds blocks under any parent (forks) and
\* commits every batch
NextForks ==
    \/ AddBlock
    \/ CommitPending
    \/ Return
SpecForks == Init /\ [][NextForks]_vars

\* the manager and a caller that hands in the blocks of the tree in any
\* order and any number of times, commits or drops each batch, and reads
\* assignments
NextReplay ==
    \/ PresentBlock
    \/ CommitPending
    \/ DropPending
    \/ Return
    \/ \E epoch_hash \in Hashes : GetValidators(epoch_hash)
SpecReplay == Init /\ [][NextReplay]_vars

\* the manager and a caller that adds blocks, commits every batch, reads
\* assignments and restarts
NextRestart ==
    \/ AddChild
    \/ CommitPending
    \/ Return
    \/ \E epoch_hash \in Hashes : GetValidators(epoch_hash)
    \/ Restart
SpecRestart == Init /\ [][NextRestart]_vars

\* the manager and a caller that builds one chain on which a new account
\* stakes, committing every batch
NextStake ==
    \/ AddStakeTip
    \/ CommitPending
    \/ Return
SpecStake == Init /\ [][NextStake]_vars

\* the manager and a caller that commits every batch and also finalizes
\* epochs itself
NextFinalize ==
    \/ AddBlock
    \/ CommitPending
    \/ Return
    \/ FinalizeAhead
SpecFinalize == Init /\ [][NextFinalize]_vars

\* the manager and a caller that builds one chain, committing every batch,
\* finalizes epochs itself and makes calls with hashes the store lacks
NextFailures ==
    \/ AddTip
    \/ AddOrphan
    \/ CommitPending
    \/ Return
    \/ FinalizeTip
SpecFailures == Init /\ [][NextFailures]_vars

-----------------------------------------------------------------------------
(* Claims about find_threshold (SpecThreshold). *)

\* the seats the stakes fill at t units of stake a seat
SeatsAt(stakes, t) == SumSeq([i \in 1..Len(stakes) |-> stakes[i] \div t])

\* what the claim asks of a returned value
IsLargestThreshold(stakes, num_seats, t) ==
    /\ t >= 1
    /\ SeatsAt(stakes, t) >= num_seats
    /\ SeatsAt(stakes, t + 1) < num_seats

ThresholdFailsExactlyWhenShort ==
    /\ ~th_result.ok <=> SumSeq(th_stakes) < th_num_seats
    /\ ~th_result.ok => th_result.err = ThresholdError(SumSeq(th_stakes), th_num_seats)

\* C2 as stated: find_threshold fails with ThresholdError(sum, num_seats) exactly
\* when the stakes sum to less than num_seats, and otherwise returns the largest
\* T >= 1 whose seat count reaches num_seats (so T + 1 falls short), for every
\* num_seats.
C2_ThresholdCorrect_AsStated ==
    th_pc = "done" =>
        /\ ThresholdFailsExactlyWhenShort
        /\ th_result.ok => IsLargestThreshold(th_stakes, th_num_seats, th_result.value)

\* C2 amended: the same for num_seats >= 1; with num_seats = 0 every T fills
\* the seats, no largest one exists, and a returned value is the sum of the stakes.
C2_ThresholdCorrect ==
    th_pc = "done" =>
        /\ ThresholdFailsExactlyWhenShort
        /\ (th_result.ok /\ th_num_seats >= 1)
              => IsLargestThreshold(th_stakes, th_num_seats, th_result.value)
        /\ (th_result.ok /\ th_num_seats = 0) => th_result.value = SumSeq(th_stakes)

C2_Witness ==
    /\ th_pc = "done"
    /\ th_result.ok
    /\ th_num_seats >= 2
    /\ Len(th_stakes) >= 2
    /\ th_result.value >= 2

-----------------------------------------------------------------------------
(* Claims about proposals_to_assignments (SpecAssign). *)

PriorStake(a) ==
    LET v == pa_current.validators
    IN  SumSeq([i \in 1..Len(v) |-> IF v[i].account_id = a THEN v[i].amount ELSE 0])

ProposalsOf(a) == {i \in 1..Len(pa_proposals) : pa_proposals[i].account_id = a}

LatestProposal(a) == pa_proposals[Max(ProposalsOf(a))].amount

IsPriorValidator(a) ==
    \E i \in 1..Len(pa_current.validators) : pa_current.validators[i].account_id = a

BookedTotal(a) == pa_stake_change[a][1] + pa_stake_change[a][2]

SumOver(S, f(_)) ==
    LET keys == SortedSeq(S) IN SumSeq([i \in 1..Len(keys) |-> f(keys[i])])

\* C1 as stated: over all accounts, new_stake + returned_stake sums to the
\* prior validators' stakes plus the amounts of all incoming proposals.
C1_StakeConserved_AsStated ==
    (pa_pc = "done" /\ pa_result.ok) =>
        SumOver(DOMAIN pa_stake_change, BookedTotal)
            = SumSeq([i \in 1..Len(pa_current.validators) |-> pa_current.validators[i].amount])
              + SumSeq([i \in 1..Len(pa_proposals) |-> pa_proposals[i].amount])

\* C1 amended: a proposal's amount is the account's whole new stake, not an
\* addition to it.  Per account, new_stake + returned_stake is the larger of
\* the prior stake and the latest proposal when the account has a proposal and
\* is not kicked out, the prior stake for a prior validator otherwise, and the
\* latest proposal for a kicked-out proposer that was no validator; accounts
\* that are neither have no entry.  The sums of the claim agree when no
\* proposer is a prior validator and no account proposes twice.
C1_StakeConserved ==
    (pa_pc = "done" /\ pa_result.ok) =>
        /\ DOMAIN pa_stake_change
              = {a \in PureAccounts : IsPriorValidator(a) \/ ProposalsOf(a) # {}}
        /\ \A a \in DOMAIN pa_stake_change :
              BookedTotal(a) =
                 IF ProposalsOf(a) # {} /\ ~MapGetOr(pa_kickout, a, FALSE)
                 THEN Max({PriorStake(a), LatestProposal(a)})
                 ELSE IF IsPriorValidator(a) THEN PriorStake(a)
                 ELSE LatestProposal(a)
        /\ (\A a \in PureAccounts :
               Cardinality(ProposalsOf(a)) <= (IF IsPriorValidator(a) THEN 0 ELSE 1))
              => SumOver(DOMAIN pa_stake_change, BookedTotal)
                   = SumOver(PureAccounts, PriorStake)
                     + SumSeq([i \in 1..Len(pa_proposals) |-> pa_proposals[i].amount])

\* a prior validator lowered its stake and keeps a seat: part of its stake
\* stays, part is returned
C1_Witness ==
    /\ pa_pc = "done"
    /\ pa_result.ok
    /\ \E a \in DOMAIN pa_stake_change :
          /\ IsPriorValidator(a)
          /\ pa_stake_change[a][1] > 0
          /\ pa_stake_change[a][2] > 0

-----------------------------------------------------------------------------
(* Claims about the encoded-chunk cache (SpecCache). *)

\* C3 as stated: after update_largest_seen_height(H, R) an entry whose
\* height_created + HEIGHT_HORIZON < H is still cached only if its hash is in R.
C3_HorizonSound_AsStated ==
    [][\A H \in TipHeights, R \in SUBSET ChunkHashes :
          UpdateLargestSeenHeight(H, R) =>
              \A c \in DOMAIN encoded_chunks' :
                  encoded_chunks'[c].header.height_created + HEIGHT_HORIZON < H
                      => c \in R]_vars

\* C4: under every part_ord and every to_shard_id a cached entry holds the
\* part, the receipt, of the first accepted partial that carried one since
\* the entry was created; nothing is stored that no accepted partial carried.
C4_FirstWriteWins ==
    /\ DOMAIN first_accepted = DOMAIN encoded_chunks
    /\ \A c \in DOMAIN encoded_chunks :
          /\ encoded_chunks[c].parts = first_accepted[c].parts
          /\ encoded_chunks[c].receipts = first_accepted[c].receipts

\* a partial that carried another part or receipt under a stored key has
\* been merged into an entry that holds parts
C4_Witness ==
    /\ cache_last.op = "merge_in_partial_encoded_chunk"
    /\ cache_last.ret
    /\ cache_last.again
    /\ \E c \in DOMAIN encoded_chunks :
          /\ DOMAIN encoded_chunks[c].parts = PartOrds
          /\ DOMAIN encoded_chunks[c].receipts = ShardIds

\* C5: in every state of the cache and for every partial,
\* merge_in_partial_encoded_chunk returns true exactly when an entry for the
\* partial's chunk hash exists or the partial has a header; on false the map
\* is as before, on true it holds an entry for the chunk hash.
C5_MergeAccepts ==
    \A p \in Partials :
        LET r == merge_in_partial_encoded_chunk(encoded_chunks, p)
        IN  /\ r.ret <=> (p.chunk_hash \in DOMAIN encoded_chunks \/ p.header # << >>)
            /\ ~r.ret => r.chunks = encoded_chunks
            /\ r.ret => p.chunk_hash \in DOMAIN r.chunks

\* a partial without a header for a chunk that is not cached was turned
\* down while another chunk is cached
C5_Witness ==
    /\ cache_last.op = "merge_in_partial_encoded_chunk"
    /\ ~cache_last.ret
    /\ encoded_chunks # EmptyMap

-----------------------------------------------------------------------------
(* Claims about the validator manager (Spec, SpecCalls). *)

\* the call in progress is op
Calling(op) == em_last # NoCall /\ em_last.op = op

\* the records stored when the call in progress began
StoredBefore == DOMAIN em_last.before.store.proposals

\* C6: a call of add_proposals for a current_hash that has a record succeeds,
\* returns a batch whose commit changes nothing, and leaves the store (records,
\* assignments, carried-forward proposals) and the manager as they were.
C6_AddProposalsIdempotent ==
    (Calling("add_proposals") /\ em_last.args[2] \in StoredBefore) =>
        /\ em_last.result.ok
        /\ CommitBatch(store, pending) = store
        /\ Me = em_last.before

\* a block of an epoch that has been finalized since is replayed with another
\* parent, index, proposals and mask
C6_Witness ==
    /\ Calling("add_proposals")
    /\ em_last.args[2] \in StoredBefore \ {Sentinel}
    /\ LET info == store.proposals[em_last.args[2]]
       IN  /\ store.last_epoch = <<info.epoch_start_hash>>
           /\ info.prev_hash # em_last.args[1]
           /\ info.index # em_last.args[3]
           /\ info.proposals # em_last.args[4]
           /\ info.validator_mask # em_last.args[5]

\* C7 as stated: until the caller commits the batch add_proposals returned,
\* the store is as it was before the call (so nothing of the call is in the
\* store when the batch is dropped).
C7_StoreOnlyThroughBatch_AsStated ==
    Calling("add_proposals") => store = em_last.before.store

\* C8 as stated: for a stored non-sentinel parent P and every index,
\* get_epoch_offset(P, index) returns the hash get_prev_epoch_hash gives for
\* P's epoch-start block and the offset index - (index of that block), 0 when
\* index = 0; for the sentinel it returns (sentinel, 0).
C8_EpochOffset_AsStated ==
    Calling("get_epoch_offset") =>
        LET P == em_last.args[1]
            index == em_last.args[2]
        IN  /\ P = Sentinel => em_last.result = Ok(<<Sentinel, 0>>)
            /\ P \in DOMAIN store.proposals \ {Sentinel} =>
                  LET start == store.proposals[P].epoch_start_hash
                  IN  /\ em_last.result.ok
                      /\ Ok(em_last.result.value[1]) = get_prev_epoch_hash(store, start)
                      /\ em_last.result.value[2] =
                            IF index = 0 THEN 0 ELSE index - store.proposals[start].index

\* the stored block is at the final slot of its epoch
LastBlockOfEpoch(st, hash) ==
    st.proposals[hash].index =
        st.proposals[st.proposals[hash].epoch_start_hash].index + config.epoch_length - 1

\* C9 as stated: get_next_epoch_hash fails for a stored parent that is the last
\* block of its epoch and returns the parent's epoch_start_hash for any other
\* stored block.
C9_NextEpochHash_AsStated ==
    (Calling("get_next_epoch_hash") /\ em_last.args[1] \in DOMAIN store.proposals \ {Sentinel})
        => IF LastBlockOfEpoch(store, em_last.args[1])
           THEN ~em_last.result.ok
           ELSE em_last.result = Ok(store.proposals[em_last.args[1]].epoch_start_hash)

\* add_proposals, get_epoch_offset and get_prev_epoch_hash, called with a hash
\* whose record they need and the store lacks, fail with MissingBlock of that
\* hash and leave the store as it was
MissingBlockSurfaces ==
    /\ (Calling("add_proposals") /\ em_last.args[2] \notin StoredBefore
            /\ em_last.args[1] \notin StoredBefore)
          => /\ em_last.result = Err(MissingBlock(em_last.args[1]))
             /\ store = em_last.before.store
    /\ (Calling("get_epoch_offset") /\ em_last.args[1] \notin StoredBefore)
          => /\ em_last.result = Err(MissingBlock(em_last.args[1]))
             /\ store = em_last.before.store
    /\ (Calling("get_prev_epoch_hash") /\ em_last.args[1] \notin StoredBefore)
          => /\ em_last.result = Err(MissingBlock(em_last.args[1]))
             /\ store = em_last.before.store

\* finalize_epoch, called between two calls with an epoch_hash or a last_hash
\* the store lacks, fails with MissingBlock of that hash and leaves the store
\* as it was
FinalizeMissingBlock ==
    em_last = NoCall =>
        \A epoch_hash, last_hash, new_hash \in Hashes :
            (epoch_hash \notin DOMAIN store.proposals \/ last_hash \notin DOMAIN store.proposals)
                => \A o \in finalize_epoch(Me, epoch_hash, last_hash, new_hash) :
                      /\ o.result = Err(MissingBlock(IF epoch_hash \in DOMAIN store.proposals
                                                     THEN last_hash ELSE epoch_hash))
                      /\ o.manager.store = store

\* get_next_epoch_hash with a parent_hash the store lacks: its result
NextEpochOfMissing(err) ==
    (Calling("get_next_epoch_hash") /\ em_last.args[1] \notin StoredBefore)
        => /\ em_last.result = Err(err)
           /\ store = em_last.before.store

\* C10 as stated: every operation whose traversal needs the record of a hash
\* the store lacks (add_proposals with an unknown prev_hash, get_epoch_offset,
\* get_next_epoch_hash, get_prev_epoch_hash, finalize_epoch) fails with
\* MissingBlock of a missing hash and leaves the store unchanged.
C10_MissingBlock_AsStated ==
    /\ MissingBlockSurfaces
    /\ FinalizeMissingBlock
    /\ (Calling("get_next_epoch_hash") /\ em_last.args[1] \notin StoredBefore)
          => NextEpochOfMissing(MissingBlock(em_last.args[1]))

\* C10 amended: the same, except that get_next_epoch_hash reports a
\* parent_hash the store lacks as EpochOutOfBounds.
C10_MissingBlock ==
    /\ MissingBlockSurfaces
    /\ FinalizeMissingBlock
    /\ NextEpochOfMissing(EpochOutOfBounds)

\* add_proposals was called for a new block under a parent the store lacks,
\* after blocks were stored
C10_Witness ==
    /\ Calling("add_proposals")
    /\ em_last.args[2] \notin StoredBefore
    /\ em_last.args[1] \notin StoredBefore
    /\ StoredBefore # {Sentinel}
    /\ ~em_last.result.ok

\* C11: get_validators(epoch_hash) fails, with EpochOutOfBounds and without
\* changing any state, exactly when no assignment is stored under epoch_hash;
\* when one is stored (by ValidatorManager::new, the genesis step of
\* add_proposals or finalize_epoch) the call returns it.
C11_GetValidators ==
    Calling("get_validators") =>
        LET epoch_hash == em_last.args[1]
        IN  /\ store = em_last.before.store
            /\ IF epoch_hash \in DOMAIN store.validators
               THEN em_last.result = Ok(store.validators[epoch_hash])
               ELSE /\ em_last.result = Err(EpochOutOfBounds)
                    /\ Me = em_last.before

\* the assignment finalize_epoch stored for the first block of an epoch is
\* asked for and returned
C11_Witness ==
    /\ Calling("get_validators")
    /\ em_last.result.ok
    /\ em_last.args[1] \in DOMAIN store.proposals
    /\ store.proposals[em_last.args[1]].prev_hash # Sentinel
    /\ store.last_epoch # << >>
    /\ \E h \in BlockHashes : h \notin DOMAIN store.validators

\* what the lookup law gives for the assignment E, its seats and the height
LawfulProducer(E, seats, height) ==
    IF height >= E.expected_epoch_start
    THEN Ok(E.validators[seats[((height - E.expected_epoch_start) % Len(seats)) + 1] + 1])
    ELSE Err(EpochOutOfBounds)

\* C12: for an assignment E stored under the epoch hash asked about,
\* get_block_proposer_info(E, h) returns
\* E.validators[E.block_producers[(h - E.expected_epoch_start) mod |E.block_producers|]]
\* and get_chunk_proposer_info(E, h, s), for a shard s of E, returns
\* E.validators[E.chunk_producers[s][(h - E.expected_epoch_start) mod |E.chunk_producers[s]|]]
\* when h >= E.expected_epoch_start; both fail with EpochOutOfBounds when
\* h < E.expected_epoch_start.
C12_ProducerLookup ==
    /\ (Calling("get_block_proposer_info") /\ em_last.args[1] \in DOMAIN store.validators)
          => LET E == store.validators[em_last.args[1]]
             IN  em_last.result = LawfulProducer(E, E.block_producers, em_last.args[2])
    /\ (Calling("get_chunk_proposer_info") /\ em_last.args[1] \in DOMAIN store.validators
            /\ em_last.args[3] < Len(store.validators[em_last.args[1]].chunk_producers))
          => LET E == store.validators[em_last.args[1]]
             IN  em_last.result =
                     LawfulProducer(E, E.chunk_producers[em_last.args[3] + 1], em_last.args[2])

\* a block producer is looked up in an epoch that does not start at height 0,
\* at a height where the seats are counted around, among seats of two validators
C12_Witness ==
    /\ Calling("get_block_proposer_info")
    /\ em_last.result.ok
    /\ em_last.args[1] \in DOMAIN store.validators
    /\ LET E == store.validators[em_last.args[1]]
       IN  /\ E.expected_epoch_start > 0
           /\ em_last.args[2] - E.expected_epoch_start >= Len(E.block_producers)
           /\ \E i, j \in DOMAIN E.block_producers :
                 E.block_producers[i] # E.block_producers[j]

\* the assignment has the seats the config asks for
SeatCounts(epoch_config, assignment) ==
    /\ Len(assignment.block_producers) = epoch_config.num_block_producers
    /\ Len(assignment.chunk_producers) = Len(epoch_config.block_producers_per_shard)
    /\ \A s \in DOMAIN assignment.chunk_producers :
          Len(assignment.chunk_producers[s]) = epoch_config.block_producers_per_shard[s]

\* C13: every assignment proposals_to_assignments returns has
\* |block_producers| = num_block_producers and, for each shard s,
\* |chunk_producers[s]| = block_producers_per_shard[s].
C13_SeatCounts ==
    (pa_pc = "done" /\ pa_result.ok) => SeatCounts(pa_config, pa_result.value)

\* an assignment was returned for two shards, the first with more seats than
\* there are block producers
C13_Witness ==
    /\ pa_pc = "done"
    /\ pa_result.ok
    /\ Len(pa_config.block_producers_per_shard) = 2
    /\ pa_config.block_producers_per_shard[1] > pa_config.num_block_producers
    /\ pa_proposals # << >>

\* every ValidatorId among the seats is an index into validators
SeatsInRange(assignment) ==
    /\ \A i \in DOMAIN assignment.block_producers :
          assignment.block_producers[i] \in 0..(Len(assignment.validators) - 1)
    /\ \A s \in DOMAIN assignment.chunk_producers :
          \A i \in DOMAIN assignment.chunk_producers[s] :
              assignment.chunk_producers[s][i] \in 0..(Len(assignment.validators) - 1)

\* C14: in every assignment stored (or cached by the manager) after any
\* sequence of initialization, add_proposals and finalize_epoch calls, every
\* ValidatorId in block_producers and in every chunk_producers[s] is smaller
\* than |validators|.
C14_SeatsInRange ==
    /\ \A h \in DOMAIN store.validators : SeatsInRange(store.validators[h])
    /\ \A h \in DOMAIN epoch_validators : SeatsInRange(epoch_validators[h])

\* finalize_epoch, called by the caller, stored an assignment with fewer
\* validators than the chain began with
C14_Witness ==
    /\ Calling("finalize_epoch")
    /\ em_last.result.ok
    /\ em_last.args[3] \in DOMAIN store.validators
    /\ Len(store.validators[em_last.args[3]].validators)
          < Len(store.validators[Sentinel].validators)

RECURSIVE Chain(_, _)
\* the stored blocks from the genesis block to the block h, h last
Chain(st, h) ==
    IF h = Sentinel \/ h \notin DOMAIN st.proposals THEN << >>
    ELSE Append(Chain(st, st.proposals[h].prev_hash), h)

RECURSIVE ProposalsIn(_, _, _)
\* the proposals of the blocks of the chain that belong to the epoch, in
\* the order of the chain
ProposalsIn(st, chain, epoch_hash) ==
    IF chain = << >> THEN << >>
    ELSE (IF st.proposals[Head(chain)].epoch_start_hash = epoch_hash
          THEN st.proposals[Head(chain)].proposals ELSE << >>)
         \o ProposalsIn(st, Tail(chain), epoch_hash)

\* the block is stored with its assignment and begins an epoch after the first
StartsEpoch(st, h) ==
    /\ h \in DOMAIN st.proposals \ {Sentinel}
    /\ h \in DOMAIN st.validators
    /\ st.proposals[h].epoch_start_hash = h
    /\ st.proposals[h].prev_hash # Sentinel

\* the epoch the parent of the block belongs to
EpochBefore(st, h) == st.proposals[st.proposals[h].prev_hash].epoch_start_hash

\* the proposals of the epoch that ends with the parent of the block
EpochProposals(st, h) ==
    ProposalsIn(st, Chain(st, st.proposals[h].prev_hash), EpochBefore(st, h))

\* a zero-amount proposal of the account that no proposal of the account follows
Unstaked(proposals, a) ==
    \E i \in DOMAIN proposals :
        /\ proposals[i] = Stake(a, 0)
        /\ \A j \in DOMAIN proposals : j > i => proposals[j].account_id # a

\* the account is no validator of the assignment and gets stake 0
Unseated(assignment, a) ==
    /\ \A i \in DOMAIN assignment.validators : assignment.validators[i].account_id # a
    /\ a \in DOMAIN assignment.stake_change
    /\ assignment.stake_change[a] = 0

\* C15 as stated: if a validator (of the assignment stored at the first block
\* of epoch n) has a zero-amount proposal in a block of epoch n and no later
\* proposal, it is absent from the validators of the assignments stored at the
\* first block of epoch n+1 and at the first block of epoch n+2 on that chain,
\* and stake_change maps it to 0 in both.
C15_Unstake_AsStated ==
    \A e1 \in DOMAIN store.proposals : \A a \in 1..3 :
        (/\ StartsEpoch(store, e1)
         /\ EpochBefore(store, e1) \in DOMAIN store.validators
         /\ \E i \in DOMAIN store.validators[EpochBefore(store, e1)].validators :
               store.validators[EpochBefore(store, e1)].validators[i].account_id = a
         /\ Unstaked(EpochProposals(store, e1), a))
        => /\ Unseated(store.validators[e1], a)
           /\ \A e2 \in DOMAIN store.proposals :
                 (/\ StartsEpoch(store, e2)
                  /\ EpochBefore(store, e2) = e1
                  /\ \A i \in DOMAIN EpochProposals(store, e2) :
                        EpochProposals(store, e2)[i].account_id # a)
                 => Unseated(store.validators[e2], a)

\* the accounts that go into the threshold search: a proposer that is not
\* kicked out, or a prior validator without a proposal that the kickout map
\* lists as not kicked out
Merged ==
    {a \in PureAccounts :
        \/ ProposalsOf(a) # {} /\ ~MapGetOr(pa_kickout, a, FALSE)
        \/ ProposalsOf(a) = {} /\ IsPriorValidator(a) /\ ~MapGetOr(pa_kickout, a, TRUE)}

\* the amount of a merged account: its latest proposal, else its prior stake
MergedAmount(a) == IF ProposalsOf(a) # {} THEN LatestProposal(a) ELSE PriorStake(a)

\* the threshold computed for the amounts of the merged accounts, taken in
\* account order
MergedThreshold ==
    LET keys == SortedSeq(Merged)
    IN  find_threshold([i \in 1..Len(keys) |-> MergedAmount(keys[i])], NumSeats(pa_config))

\* C16: in every successful result the validators are exactly the merged
\* accounts whose amount is >= the computed threshold, in account order, each
\* with stake_change equal to its amount; a merged account under the threshold
\* is no validator, has stake_change 0, and its whole stake (the larger of its
\* prior stake and its amount) is booked as returned.
C16_BelowThreshold ==
    (pa_pc = "done" /\ pa_result.ok) =>
        LET t == MergedThreshold.value
            seated == {a \in Merged : MergedAmount(a) >= t}
        IN  /\ MergedThreshold.ok
            /\ pa_result.value.validators = StakeList([a \in seated |-> MergedAmount(a)])
            /\ \A a \in seated : pa_result.value.stake_change[a] = MergedAmount(a)
            /\ \A a \in Merged \ seated :
                  /\ pa_result.value.stake_change[a] = 0
                  /\ pa_stake_change[a] = <<0, Max({PriorStake(a), MergedAmount(a)})>>

\* a prior validator lowered its stake to a positive amount under the
\* threshold while another account keeps a seat
C16_Witness ==
    /\ pa_pc = "done"
    /\ pa_result.ok
    /\ pa_result.value.validators # << >>
    /\ \E a \in Merged :
          /\ IsPriorValidator(a)
          /\ ProposalsOf(a) # {}
          /\ MergedAmount(a) > 0
          /\ MergedAmount(a) < MergedThreshold.value
          /\ MergedAmount(a) < PriorStake(a)

\* the finalization a call of add_proposals ran, if it ran one: the manager it
\* started from and the arguments finalize_epoch got
Finalizations ==
    IF ~Calling("add_proposals") THEN {}
    ELSE LET b == em_last.before
             prev_hash == em_last.args[1]
             current_hash == em_last.args[2]
             index == em_last.args[3]
         IN  IF /\ current_hash \notin DOMAIN b.store.proposals
                /\ prev_hash # Sentinel
                /\ prev_hash \in DOMAIN b.store.proposals
                /\ b.store.proposals[prev_hash].epoch_start_hash \in DOMAIN b.store.proposals
                /\ b.store.proposals[b.store.proposals[prev_hash].epoch_start_hash].index
                       + config.epoch_length <= index
                /\ current_hash \notin DOMAIN b.epoch_validators
                /\ current_hash \notin DOMAIN b.store.validators
             THEN {[manager |-> b,
                    epoch_hash |-> b.store.proposals[prev_hash].epoch_start_hash,
                    last_hash |-> prev_hash,
                    new_hash |-> current_hash]}
             ELSE {}

\* the assignment that governs the epoch a finalization closes
Governing(f) ==
    f.manager.store.validators[get_prev_epoch_hash(f.manager.store, f.epoch_hash).value]

\* the blocks expected of each validator in that epoch
Expected(f) ==
    get_epoch_block_proposer_info(Governing(f), config.epoch_length,
                                  Governing(f).expected_epoch_start)

\* what the walk over the epoch's blocks collects
Walked(f) ==
    WalkEpoch(f.manager.store, f.epoch_hash, f.last_hash, Expected(f).block_index_to_validator,
              [proposals |-> << >>, validator_kickout |-> EmptyMap,
               validator_tracker |-> EmptyMap])

\* the finalizations that get as far as the kickout loop
Judged == {f \in Finalizations : Walked(f).ok}

\* the loop of lines 562-580 finds no validator to keep
AllKickedOut(f) ==
    KickoutLoop(SortedSeq(DOMAIN Walked(f).value.validator_tracker), 1,
                Walked(f).value.validator_tracker, Expected(f).validator_to_num_blocks,
                Governing(f).validators,
                [validator_kickout |-> Walked(f).value.validator_kickout,
                 all_kicked_out |-> TRUE,
                 maximum_block_prod_ratio |-> <<0, 1>>,
                 max_account_id |-> << >>]).all_kicked_out

\* the liveness ratio of a validator: blocks produced over blocks expected
Liveness(f, i) ==
    <<MapGetOr(Walked(f).value.validator_tracker, i, 0), Expected(f).validator_to_num_blocks[i]>>

\* the validator with the highest liveness ratio, the lowest ValidatorId on a tie
Liveliest(f) ==
    LET ids == DOMAIN Expected(f).validator_to_num_blocks
    IN  Min({i \in ids : \A j \in ids : ~RatioLess(Liveness(f, i), Liveness(f, j))})

\* the accounts of an assignment's validators
AccountsOf(assignment) ==
    {assignment.validators[i].account_id : i \in 1..Len(assignment.validators)}

\* C17 as stated: when finalize_epoch finds every validator of the governing
\* assignment kicked out, it succeeds and the validator with the highest
\* liveness ratio (lowest ValidatorId on a tie) is a validator of the new
\* assignment, which is therefore not empty.
C17_Rescue_AsStated ==
    \A f \in Judged :
        AllKickedOut(f) =>
            /\ em_last.result.ok
            /\ f.new_hash \in DOMAIN store.validators
            /\ Governing(f).validators[Liveliest(f) + 1].account_id
                   \in AccountsOf(store.validators[f.new_hash])

\* the hashes of the pre-genesis record and of the chain that ends with h
Ancestry(st, h) ==
    {Sentinel} \cup {Chain(st, h)[i] : i \in 1..Len(Chain(st, h))}

\* the store with only what is stored under the given hashes
Restricted(st, S) ==
    [proposals |-> [g \in DOMAIN st.proposals \cap S |-> st.proposals[g]],
     validators |-> [g \in DOMAIN st.validators \cap S |-> st.validators[g]],
     last_epoch_proposals |->
         [g \in DOMAIN st.last_epoch_proposals \cap S |-> st.last_epoch_proposals[g]],
     last_epoch |-> << >>]

\* the assignments finalize_epoch computes for the block h from the records
\* and assignments of the ancestors of h alone
FromAncestors(st, h) ==
    {o.manager.store.validators[h] :
        o \in {x \in finalize_epoch(
                        Manager(Restricted(st, Ancestry(st, h) \ {h}), Sentinel, EmptyMap),
                        EpochBefore(st, h), st.proposals[h].prev_hash, h) :
                  x.result.ok}}

\* C18: the assignment stored at the first block of an epoch is the one
\* finalize_epoch computes from the records and assignments of that block's
\* ancestors alone, whatever other forks the store holds; and for every stored
\* block get_epoch_offset answers as it does on the block's own chain alone.
C18_ForkIndependence ==
    /\ \A h \in DOMAIN store.proposals :
          StartsEpoch(store, h) => FromAncestors(store, h) = {store.validators[h]}
    /\ \A h \in DOMAIN store.proposals, index \in CallIndices :
          get_epoch_offset(store, h, index)
              = get_epoch_offset(Restricted(store, Ancestry(store, h)), h, index)

\* a block starts the epoch after the first with its assignment, its own
\* first epoch has no proposals, and a block on another fork carries some
C18_Witness ==
    \E h, g \in DOMAIN store.proposals \ {Sentinel} :
        /\ StartsEpoch(store, h)
        /\ EpochProposals(store, h) = << >>
        /\ g \notin Ancestry(store, h)
        /\ h \notin Ancestry(store, g)
        /\ store.proposals[g].proposals # << >>

\* the call in progress is add_proposals for a block that had its assignment
\* (in the store or in the manager's cache) when the call began
AssignedBefore ==
    /\ Calling("add_proposals")
    /\ em_last.args[2] \in DOMAIN em_last.before.store.validators
                              \cup DOMAIN em_last.before.epoch_validators

\* no step takes away or changes a stored assignment
AssignmentsKept ==
    \A h \in DOMAIN store.validators :
        h \in DOMAIN store'.validators /\ store'.validators[h] = store.validators[h]

\* C19: an assignment stored under an epoch hash never changes afterwards, and
\* a call of add_proposals for a block that already has its assignment does
\* not finalize again: it leaves the assignments, the carried-forward
\* proposals, the LAST_EPOCH record and the manager's last_epoch as they were.
C19_WrittenOnce ==
    /\ [][AssignmentsKept]_vars
    /\ [](AssignedBefore =>
            /\ em_last.result.ok
            /\ store.validators = em_last.before.store.validators
            /\ store.last_epoch_proposals = em_last.before.store.last_epoch_proposals
            /\ store.last_epoch = em_last.before.store.last_epoch
            /\ last_epoch = em_last.before.last_epoch)

\* the first block of an epoch is handed in again after its batch was dropped,
\* with another epoch finalized in between
C19_Witness ==
    /\ AssignedBefore
    /\ em_last.args[2] \notin StoredBefore
    /\ em_last.args[1] # Sentinel
    /\ em_last.before.last_epoch # em_last.args[2]

\* C20: a manager created on the store of another, with every batch committed
\* and the same config and initial validators, leaves every stored record as it
\* was and answers get_validators for every epoch hash as the other manager
\* would have.
C20_Restart ==
    Calling("new") =>
        /\ store = em_last.before.store
        /\ \A epoch_hash \in Hashes :
              get_validators(store, epoch_validators, epoch_hash).result
                  = get_validators(em_last.before.store, em_last.before.epoch_validators,
                                   epoch_hash).result

\* the manager is created anew after an epoch was finalized, and the manager
\* before it had the assignment of a later epoch in its cache
C20_Witness ==
    /\ Calling("new")
    /\ store.last_epoch # << >>
    /\ \E h \in DOMAIN em_last.before.epoch_validators :
          /\ StartsEpoch(store, h)
          /\ h \notin DOMAIN epoch_validators

GenesisCopy(st) ==
    [st.validators[Sentinel] EXCEPT !.expected_epoch_start = config.epoch_length]

\* the stored blocks whose parent is the pre-genesis record
GenesisBlocks(st) ==
    {h \in DOMAIN st.proposals \ {Sentinel} : st.proposals[h].prev_hash = Sentinel}

\* C22: a call of add_proposals for a new block under the pre-genesis hash
\* succeeds, stores under current_hash the pre-genesis assignment with
\* expected_epoch_start = epoch_length and nothing else changed, and returns
\* the block's record with epoch_start_hash = current_hash; every stored
\* genesis block, on every genesis fork, has that record and that assignment.
C22_Genesis ==
    /\ (Calling("add_proposals") /\ em_last.args[1] = Sentinel
            /\ em_last.args[2] \notin StoredBefore) =>
          /\ em_last.result.ok
          /\ store.validators[em_last.args[2]] = GenesisCopy(em_last.before.store)
          /\ DOMAIN pending = {em_last.args[2]}
          /\ pending[em_last.args[2]].epoch_start_hash = em_last.args[2]
          /\ pending[em_last.args[2]].prev_hash = Sentinel
    /\ \A h \in GenesisBlocks(store) :
          /\ store.proposals[h].epoch_start_hash = h
          /\ store.validators[h] = GenesisCopy(store)

\* two genesis forks are stored
C22_Witness ==
    \E h, g \in GenesisBlocks(store) :
        /\ h # g
        /\ store.proposals[h].index # store.proposals[g].index

RECURSIVE Reverse(_)
Reverse(seq) == IF seq = << >> THEN << >> ELSE Append(Reverse(Tail(seq)), Head(seq))

\* the proposals of the blocks a finalization walks, from the last block back
\* to the first block of the epoch
WalkedProposals(f) ==
    ProposalsIn(f.manager.store, Reverse(Chain(f.manager.store, f.last_hash)), f.epoch_hash)

\* the proposals carried forward into a finalization
Carried(f) == MapGetOr(f.manager.store.last_epoch_proposals, f.epoch_hash, << >>)

\* the kickout maps a finalization can arrive at
KickoutMapsOf(f) ==
    {KickoutMap(order, Walked(f).value, Expected(f).validator_to_num_blocks, Governing(f)) :
        order \in IterationOrders(DOMAIN Walked(f).value.validator_tracker)}

\* the proposal makes its account a validator: the account is none in the
\* governing assignment, is not kicked out, and the amount reaches the
\* threshold of the finalization
Staking(f, kickout, proposals, p) ==
    /\ p.account_id \notin AccountsOf(Governing(f))
    /\ ~MapGetOr(kickout, p.account_id, FALSE)
    /\ StakeBookkeeping(config, Governing(f), proposals, kickout).ok
    /\ p.amount >= StakeBookkeeping(config, Governing(f), proposals, kickout).value.threshold

\* C23 as stated: a finalization that succeeds counts the proposals of the blocks it
\* walks and the proposals carried forward from the finalization before it:
\* each of them that comes from a non-validator account, is not kicked out and
\* reaches the threshold makes the account a validator of the new assignment
\* (so a proposal of epoch n counts at the first block of epoch n+1 and again
\* at the first block of epoch n+2); and LAST_EPOCH_PROPOSALS[new_hash] holds
\* exactly the proposals of the walked blocks, without the carried-forward ones.
C23_CarryForward_AsStated ==
    \A f \in Judged :
        em_last.result.ok =>
            /\ store.last_epoch_proposals[f.new_hash] = WalkedProposals(f)
            /\ \A kickout \in KickoutMapsOf(f) :
                  \A i \in DOMAIN (Carried(f) \o WalkedProposals(f)) :
                      Staking(f, kickout, Carried(f) \o WalkedProposals(f),
                              (Carried(f) \o WalkedProposals(f))[i])
                          => (Carried(f) \o WalkedProposals(f))[i].account_id
                                 \in AccountsOf(store.validators[f.new_hash])

\* the number of the epoch a stored block belongs to on its chain: 0 for the
\* epoch of the genesis block, one more with every block that starts an epoch
EpochNumber(st, h) ==
    Cardinality({g \in Ancestry(st, h) \ {Sentinel} :
                    st.proposals[g].epoch_start_hash = g}) - 1

\* the expected_epoch_start of the assignments get_epoch_offset selects for a
\* block at the index under the parent
SelectedEpochStarts(st, parent_hash, index) ==
    {st.validators[o.value[1]].expected_epoch_start :
        o \in {x \in get_epoch_offset(st, parent_hash, index) : x.ok}}

\* the law of lines 209-220 on what the manager stores: 0 for the pre-genesis
\* assignment (computed against the empty default), and two epoch lengths
\* past the governing assignment for the assignment of a finalization
EpochStartLaw(st) ==
    /\ st.validators[Sentinel].expected_epoch_start = 0
    /\ \A h \in DOMAIN st.proposals :
          StartsEpoch(st, h) =>
              st.validators[h].expected_epoch_start
                  = st.validators[get_prev_epoch_hash(st, EpochBefore(st, h)).value]
                        .expected_epoch_start + 2 * config.epoch_length

C25_Consume ==
    [][\A h \in HeaderHashes :
          GetChunkHeadersForBlock(h) =>
              /\ h \notin displaced =>
                     headers_last'.ret = MapGetOr(accepted_since, h, << >>)
              /\ get_chunk_headers_for_block(block_hash_to_chunk_headers', h).ret = << >>
              /\ \A g \in HeaderHashes \ {h} :
                     Bucket(block_hash_to_chunk_headers', g)
                         = Bucket(block_hash_to_chunk_headers, g)]_vars

\* a call returned two different pairs, the pair with the larger shard_id
\* first, the bucket of another hash is held, and a bucket was displaced
C25_Witness ==
    /\ headers_last.op = "get_chunk_headers_for_block"
    /\ Len(headers_last.ret) = 2
    /\ headers_last.ret[1][1] > headers_last.ret[2][1]
    /\ LruKeys(block_hash_to_chunk_headers) # {}
    /\ displaced # {}

\* C26 as stated: insert_chunk_header(shard_id, header) appends the pair to the
\* bucket of header.prev_block_hash exactly when header.height_created >
\* largest_seen_height - NUM_BLOCK_HASH_TO_CHUNK_HEADER, the difference taken
\* in the integers so that under a tip below 10 every header is appended, and
\* otherwise leaves the index as it is.
C26_Window_AsStated ==
    [][\A pair \in TrackedPairs :
          InsertChunkHeader(pair[1], pair[2]) =>
              IF pair[2].height_created
                     > largest_seen_height - NUM_BLOCK_HASH_TO_CHUNK_HEADER
              THEN Bucket(block_hash_to_chunk_headers', TrackedHash)
                       = Append(Bucket(block_hash_to_chunk_headers, TrackedHash), pair)
              ELSE block_hash_to_chunk_headers' = block_hash_to_chunk_headers]_vars

\* the proposals of the blocks a finalization walks, from the first block
\* of the epoch to the last
ChainProposals(f) ==
    ProposalsIn(f.manager.store, Chain(f.manager.store, f.last_hash), f.epoch_hash)

\* the assignments proposals_to_assignments gives a finalization when the
\* proposals carried forward come first and the proposals of the walked
\* blocks follow them from the earliest block to the latest
LatestLast(f) ==
    {proposals_to_assignments(config, Governing(f), Carried(f) \o ChainProposals(f), kickout) :
        kickout \in KickoutMapsOf(f)}

\* C27 as stated: when an account has proposals in several of the blocks a
\* finalization walks, the amount the new assignment is computed from is the
\* one of the proposal in the latest of those blocks, and a proposal of a
\* walked block overrides a carried-forward proposal of the account: the
\* assignment stored is the one proposals_to_assignments computes from the
\* carried-forward proposals followed by the walked ones, latest block last.
C27_LatestWins_AsStated ==
    \A f \in Judged :
        em_last.result.ok =>
            \E r \in LatestLast(f) : r.ok /\ r.value = store.validators[f.new_hash]

\* the validator of the governing assignment is below the kickout threshold
\* over the walked blocks
BelowThreshold(f, i) == RatioLess(Liveness(f, i), config.validator_kickout_threshold)

\* a validator of the governing assignment reaches the kickout threshold and
\* no walked proposal of its account has amount 0: not all are kicked out,
\* and nobody is to be rescued
SomeoneStays(f) ==
    \E j \in DOMAIN Expected(f).validator_to_num_blocks :
        /\ ~BelowThreshold(f, j)
        /\ Governing(f).validators[j + 1].account_id
               \notin DOMAIN Walked(f).value.validator_kickout

\* C28 as stated: in a finalization that succeeds, every validator of the
\* governing assignment whose ratio of blocks produced to blocks expected
\* over the walked blocks is below validator_kickout_threshold, with or
\* without a block produced and with or without a proposal in the epoch, is
\* no validator of the new assignment and has stake_change 0 there (no
\* rescue is due: another validator stays).
C28_LivenessKickout_AsStated ==
    \A f \in Judged :
        (em_last.result.ok /\ SomeoneStays(f)) =>
            \A i \in DOMAIN Expected(f).validator_to_num_blocks :
                BelowThreshold(f, i) =>
                    /\ Governing(f).validators[i + 1].account_id
                           \notin AccountsOf(store.validators[f.new_hash])
                    /\ store.validators[f.new_hash].stake_change[
                           Governing(f).validators[i + 1].account_id] = 0

\* the tracked validators of a finalization that reach the kickout threshold
LiveValidators(f) ==
    {i \in DOMAIN Walked(f).value.validator_tracker : ~BelowThreshold(f, i)}

\* C29 as stated: a validator whose liveness ratio reaches
\* validator_kickout_threshold is marked as not kicked out in the kickout map
\* finalize_epoch passes on, also when a walked proposal of its account had
\* amount 0.
C29_LiveNotKicked_AsStated ==
    \A f \in Judged :
        \A kickout \in KickoutMapsOf(f), i \in LiveValidators(f) :
            /\ Governing(f).validators[i + 1].account_id \in DOMAIN kickout
            /\ ~kickout[Governing(f).validators[i + 1].account_id]

\* C29: a validator whose liveness ratio reaches validator_kickout_threshold
\* is marked as not kicked out in the kickout map finalize_epoch passes on,
\* unless a walked proposal of its account had amount 0: then the mark of
\* the zero stake stays and the validator is marked as kicked out.
C29_LiveNotKicked ==
    \A f \in Judged :
        \A kickout \in KickoutMapsOf(f), i \in LiveValidators(f) :
            /\ Governing(f).validators[i + 1].account_id \in DOMAIN kickout
            /\ kickout[Governing(f).validators[i + 1].account_id]
                   = (Governing(f).validators[i + 1].account_id
                          \in DOMAIN Walked(f).value.validator_kickout)

\* a finalization succeeded in which a validator produced every block
\* expected of it and a walked proposal of its account had amount 0
C29_Witness ==
    \E f \in Judged :
        /\ em_last.result.ok
        /\ \E i \in LiveValidators(f) :
              Governing(f).validators[i + 1].account_id
                  \in DOMAIN Walked(f).value.validator_kickout

\* the indices the governing assignment of a finalization schedules a
\* producer for
Scheduled(f) ==
    Governing(f).expected_epoch_start
        .. (Governing(f).expected_epoch_start + config.epoch_length - 1)

\* the blocks a finalization walks
WalkedBlocks(f) ==
    {h \in Ancestry(f.manager.store, f.last_hash) \ {Sentinel} :
        f.manager.store.proposals[h].epoch_start_hash = f.epoch_hash}

\* C30 as stated: in every finalization add_proposals runs, the index of
\* each block the walk visits lies in [expected_epoch_start,
\* expected_epoch_start + epoch_length) of the governing assignment, so the
\* lookup of the scheduled producer finds one and the call does not panic.
C30_ProducerScheduled_AsStated ==
    \A f \in Finalizations :
        /\ \A h \in WalkedBlocks(f) : f.manager.store.proposals[h].index \in Scheduled(f)
        /\ em_last.result # Panic("unwrap on None")

-----------------------------------------------------------------------------
(* Claims about the epoch structure add_proposals builds. *)

\* the call in progress is a call of add_proposals that returned a record for
\* a block under a parent other than the sentinel
RecordWritten ==
    /\ Calling("add_proposals")
    /\ em_last.result.ok
    /\ pending # EmptyBatch
    /\ em_last.args[1] # Sentinel

\* line 633: the index is at or past the end of the epoch of the parent
BeginsEpoch(st, prev_hash, index) ==
    st.proposals[st.proposals[prev_hash].epoch_start_hash].index + config.epoch_length
        <= index

\* the block had an assignment, stored or cached, in the manager
Assigned(m, hash) == hash \in DOMAIN m.store.validators \cup DOMAIN m.epoch_validators

\* C31: in every record add_proposals writes for a block under a parent other
\* than the sentinel, epoch_start_hash is the block's own hash exactly when
\* (index of the parent's epoch-start block) + epoch_length <= the block's
\* index, and the parent's epoch_start_hash otherwise; in the first case,
\* when the block had no assignment, the manager is left as
\* finalize_epoch(parent.epoch_start_hash, prev_hash, current_hash) leaves it,
\* and in every other case no finalization took place (the store and
\* last_epoch are as before the call).
C31_EpochStartRule ==
    RecordWritten =>
        LET b == em_last.before
            prev_hash == em_last.args[1]
            current_hash == em_last.args[2]
            index == em_last.args[3]
            parent == b.store.proposals[prev_hash]
            record == pending[current_hash]
        IN  /\ (record.epoch_start_hash = current_hash)
                  <=> BeginsEpoch(b.store, prev_hash, index)
            /\ ~BeginsEpoch(b.store, prev_hash, index)
                  => record.epoch_start_hash = parent.epoch_start_hash
            /\ IF BeginsEpoch(b.store, prev_hash, index) /\ ~Assigned(b, current_hash)
               THEN /\ Outcome(Ok(TRUE), Me)
                         \in finalize_epoch(b, parent.epoch_start_hash, prev_hash,
                                            current_hash)
                    /\ store.last_epoch = <<parent.epoch_start_hash>>
                    /\ last_epoch = current_hash
                    /\ current_hash \in DOMAIN store.validators
               ELSE /\ store = b.store
                    /\ last_epoch = b.last_epoch
            /\ ~BeginsEpoch(b.store, prev_hash, index) => Me = b

\* a record was written for the first block of an epoch, past skipped
\* indices and under a parent that is not the first block of its own epoch,
\* and the epoch of the parent was finalized by the call
C31_Witness ==
    /\ RecordWritten
    /\ LET b == em_last.before
           prev_hash == em_last.args[1]
           current_hash == em_last.args[2]
           index == em_last.args[3]
       IN  /\ b.store.proposals[prev_hash].epoch_start_hash # prev_hash
           /\ b.store.proposals[b.store.proposals[prev_hash].epoch_start_hash].index
                  + config.epoch_length < index
           /\ ~Assigned(b, current_hash)
           /\ pending[current_hash].epoch_start_hash = current_hash
           /\ last_epoch = current_hash

-----------------------------------------------------------------------------
(* Claims about the seats of the shards (SpecRing). *)

RECURSIVE RingCursor(_, _)
\* the cursor before shard s (0-based): 0 before the first shard, and after a
\* shard the cursor plus the seats of the shard, modulo num_block_producers
RingCursor(epoch_config, s) ==
    IF s = 0 THEN 0
    ELSE (RingCursor(epoch_config, s - 1) + epoch_config.block_producers_per_shard[s])
            % epoch_config.num_block_producers

\* the ValidatorIds among the block producers
BlockProducerSet(assignment) ==
    {assignment.block_producers[i] : i \in DOMAIN assignment.block_producers}

\* C32: in every assignment proposals_to_assignments returns, seat i of shard
\* s is block_producers[(i + last_index) mod num_block_producers], where the
\* cursor last_index is 0 for the first shard and after shard s becomes
\* (last_index + block_producers_per_shard[s]) mod num_block_producers; so
\* every chunk producer is a block producer, also in a shard with more seats
\* than there are block producers.
C32_Ring ==
    (pa_pc = "done" /\ pa_result.ok) =>
        LET a == pa_result.value
            n == pa_config.num_block_producers
        IN  /\ SeatCounts(pa_config, a)
            /\ \A s \in 0..(Len(a.chunk_producers) - 1) :
                  \A i \in 0..(pa_config.block_producers_per_shard[s + 1] - 1) :
                      a.chunk_producers[s + 1][i + 1]
                          = a.block_producers[((i + RingCursor(pa_config, s)) % n) + 1]
            /\ \A s \in DOMAIN a.chunk_producers :
                  \A i \in DOMAIN a.chunk_producers[s] :
                      a.chunk_producers[s][i] \in BlockProducerSet(a)

\* an assignment was returned in which a shard has more seats than there are
\* block producers and starts at a cursor other than 0, there are more seats
\* than block producers, and the block producers are not all one validator
C32_Witness ==
    /\ pa_pc = "done"
    /\ pa_result.ok
    /\ \E s \in 1..(Len(pa_config.block_producers_per_shard) - 1) :
          /\ pa_config.block_producers_per_shard[s + 1] > pa_config.num_block_producers
          /\ RingCursor(pa_config, s) # 0
    /\ NumSeats(pa_config) > pa_config.num_block_producers
    /\ Cardinality(BlockProducerSet(pa_result.value)) > 1

-----------------------------------------------------------------------------
(* Claims about the seats the threshold leaves (SpecSeats). *)

\* the bookkeeping of the call, up to the point where the seats are drawn
Booked == StakeBookkeeping(pa_config, pa_current, pa_proposals, pa_kickout)

\* the seats of the surviving validators: floor(amount / threshold) each
SurvivorSeats(b) ==
    SeatsAt([i \in 1..Len(b.final_proposals) |-> b.final_proposals[i].amount], b.threshold)

\* C33: whenever find_threshold succeeds inside proposals_to_assignments,
\* the seats produced by repeating each surviving validator
\* floor(amount / threshold) times are at least num_block_producers + the sum
\* of avg_fisherman_per_shard, and proposals_to_assignments never returns
\* SelectedSeatsMismatch.
C33_SeatsSuffice ==
    pa_pc = "done" =>
        /\ Booked.ok =>
              /\ SurvivorSeats(Booked.value) >= NumSeats(pa_config)
              /\ pa_result.ok
        /\ ~pa_result.ok => pa_result.err.kind # "SelectedSeatsMismatch"

\* an assignment was returned for stakes of which one is positive and under
\* the threshold, with exactly as many seats as the config asks for
C33_Witness ==
    /\ pa_pc = "done"
    /\ pa_result.ok
    /\ Booked.ok
    /\ SurvivorSeats(Booked.value) = NumSeats(pa_config)
    /\ \E a \in DOMAIN Booked.value.ordered_proposals :
          /\ Booked.value.ordered_proposals[a].amount > 0
          /\ Booked.value.ordered_proposals[a].amount < Booked.value.threshold

-----------------------------------------------------------------------------
(* Claims about calls that fail (SpecFailures). *)

\* the errors a call returns (a panic returns nothing)
ReturnedErrors == {"MissingBlock", "EpochOutOfBounds", "ThresholdError", "SelectedSeatsMismatch"}

\* the call in progress is a call of op that returned one of these errors
Failed(op) ==
    /\ Calling(op)
    /\ ~em_last.result.ok
    /\ em_last.result.err.kind \in ReturnedErrors

\* the hash the call in progress was to store a record or an assignment for
NewHash == IF em_last.op = "add_proposals" THEN em_last.args[2] ELSE em_last.args[3]

\* C34: when add_proposals or finalize_epoch fails with MissingBlock,
\* EpochOutOfBounds, ThresholdError or SelectedSeatsMismatch, the store is as
\* it was before the call (no record and no assignment for the new hash,
\* LAST_EPOCH and the carried-forward proposals unchanged), no batch is
\* returned, the manager's last_epoch is unchanged, and get_validators of the
\* new hash, if it had no assignment, fails with EpochOutOfBounds.
C34_FailureStoresNothing ==
    (Failed("add_proposals") \/ Failed("finalize_epoch")) =>
        /\ store = em_last.before.store
        /\ pending = EmptyBatch
        /\ last_epoch = em_last.before.last_epoch
        /\ ~Assigned(em_last.before, NewHash) =>
              /\ ~Assigned(Me, NewHash)
              /\ get_validators(store, epoch_validators, NewHash).result
                     = Err(EpochOutOfBounds)

\* add_proposals failed with ThresholdError in the finalization it ran for
\* the first block of an epoch, after another epoch was finalized
C34_Witness ==
    /\ Failed("add_proposals")
    /\ em_last.result.err.kind = "ThresholdError"
    /\ Finalizations # {}
    /\ store.last_epoch # << >>

-----------------------------------------------------------------------------
(* Claims about the stored records (SpecForks). *)

\* the record of the block has a stored epoch-start block that is its own
\* epoch start, and the block's index is within epoch_length of that block's
WithinItsEpoch(st, h) ==
    LET b == st.proposals[h]
    IN  /\ b.epoch_start_hash \in DOMAIN st.proposals
        /\ st.proposals[b.epoch_start_hash].epoch_start_hash = b.epoch_start_hash
        /\ b.index < st.proposals[b.epoch_start_hash].index + config.epoch_length

OffsetEpochs(st, P) ==
    {h \in Hashes : \E i \in CallIndices : \E r \in get_epoch_offset(st, P, i) :
                         r.ok /\ r.value[1] = h}

\* C36: with every batch committed, for every stored block P other than the
\* sentinel an assignment is stored under the epoch_start_hash of P's record
\* and under every epoch hash get_epoch_offset(P, i) returns, so
\* get_validators of that epoch hash succeeds and does not fail with
\* EpochOutOfBounds.
C36_AssignmentAvailable ==
    \A P \in DOMAIN store.proposals \ {Sentinel} :
        /\ store.proposals[P].epoch_start_hash \in DOMAIN store.validators
        /\ OffsetEpochs(store, P) # {}
        /\ \A epoch_hash \in OffsetEpochs(store, P) :
              /\ epoch_hash \in DOMAIN store.validators
              /\ get_validators(store, epoch_validators, epoch_hash).result.ok

\* a block is stored for which get_epoch_offset returns the hash of an epoch
\* after the first, whose assignment finalize_epoch stored
C36_Witness ==
    \E P \in DOMAIN store.proposals \ {Sentinel} :
        \E epoch_hash \in OffsetEpochs(store, P) :
            /\ epoch_hash # Sentinel
            /\ store.proposals[epoch_hash].prev_hash # Sentinel
            /\ store.last_epoch_proposals[epoch_hash] # << >>

-----------------------------------------------------------------------------
(* Claims about the termination of find_threshold (SpecThreshold). *)

\* the pass of the outer loop about to be made leaves an interval [left, right)
\* that is not empty and is shorter than the one it found
PassShrinks ==
    (th_pc = "loop" /\ th_left # th_right - 1) =>
        LET n == ThresholdIter(th_stakes, th_num_seats, th_left, th_right)
        IN  /\ n[1] < n[2]
            /\ n[2] - n[1] < th_right - th_left

\* the call has returned, or its next step changes its state
Progresses == th_pc = "done" \/ ENABLED <<NextThreshold>>_vars

\* C37 as stated: for every list of stakes (the empty list and lists of
\* zeros among them) and every num_seats (0 among them), every pass of the
\* binary-search loop strictly shrinks the interval [left, right), and
\* find_threshold returns, with a value or with ThresholdError: it is never
\* in a state from which no pass leads on.
C37_Terminates_AsStated == PassShrinks /\ Progresses

-----------------------------------------------------------------------------
(* Claims about the tip of the encoded-chunk cache (SpecCache). *)

\* the heights the chunks of the model were created at
CreatedHeights == {HeaderOf(c).height_created : c \in ChunkHashes}

\* C38 as stated: across any sequence of update_largest_seen_height calls
\* largest_seen_height never decreases, so a height that
\* height_within_horizon rejects as too old (height + HEIGHT_HORIZON <
\* largest_seen_height) is not admitted after a later call.
C38_TipMonotone_AsStated ==
    [][/\ largest_seen_height' >= largest_seen_height
       /\ \A height \in CreatedHeights :
             height + HEIGHT_HORIZON < largest_seen_height
                 => ~height_within_horizon(largest_seen_height', height)]_vars

====
